---- MODULE Spec2Model ----
(***************************************************************************)
(* Model of the trust-and-access services of squirli-backend:              *)
(*   - TwoFactorService   (TOTP codes, backup codes, 2FA credential)       *)
(*   - EncryptionService  (encrypt / decrypt / hash / verifyHash)          *)
(*   - SecurityController (the /2fa/* handlers)                            *)
(*   - IPBlacklistService (in-memory blacklist map over a persisted store) *)
(* One specification per service; the variables of the other services     *)
(* stay unchanged under it.                                                *)
(***************************************************************************)
EXTENDS Integers, Sequences, FiniteSets, TLC

VARIABLES
    now,            \* Date.now(), in milliseconds
    hmacTable,      \* HMAC-SHA1 + dynamic truncation, as a function of (key, counter buffer)
    issued,         \* the last code generateTOTP returned: [secret, code, counter] or NoCall
    lastVerify,     \* the last verifyTOTP call: [secret, code, window, counter, result] or NoCall
    blacklistCache, \* the in-memory Map ip -> [reason, expiresAt] of ipBlacklistService
    dbBlacklist,    \* the persisted iPBlacklist table: ip -> [reason, expiresAt, source]
    securityLog,    \* the persisted securityLog table, in order of creation
    lastAdd,        \* per ip blacklisted by the last successful write for it: when the duration given ends
    lastBl,         \* the blacklist operation of the last step, with its inputs and result
    user,           \* the 2FA columns of the user's row in the persisted user table
    randomCount,    \* how many outputs of crypto.randomBytes the stored values hold
    auditLog,       \* the persisted auditLog table, in order of creation
    last2fa,        \* the 2FA operation of the last step, with its inputs and result
    req,            \* the inbound request in the middleware chain, with its response
    failedLogins,   \* per client ip: how many failed login responses it has been sent
    userSession,    \* the row of the persisted userSession table that belongs to the client
    awaiting,       \* the calls that run concurrently, in order of their start: each is
                    \* suspended at its await with its locals, or has completed
    cache,          \* the in-memory Map ip -> [data, timestamp] of GeoLocationService
    lastGeo,        \* the geolocation operation of the last step, with its inputs and result
    lastAudit       \* the AuditService operation of the last step, with its result

totpVars == << hmacTable, issued, lastVerify >>
blVars == << blacklistCache, dbBlacklist, securityLog, lastAdd, lastBl >>
tfaVars == << user, randomCount, auditLog, last2fa >>
reqVars == << req, failedLogins, awaiting, userSession >>
geoVars == << cache, lastGeo >>
auditVars == << lastAudit >>
nonTotpVars == << blVars, tfaVars, reqVars, geoVars, auditVars >>
nonBlVars == << totpVars, tfaVars, reqVars, geoVars, auditVars >>

NoCall == [op |-> "none"]

\* How a call ends: it throws, or it returns a value.
Thrown == [ok |-> FALSE]
Returned(value) == [ok |-> TRUE, value |-> value]

(***************************************************************************)
(* Bounds of the model                                                     *)
(***************************************************************************)
TotpStartTime == 30000      \* first clock value of the TOTP specification (ms)
TotpMaxTime == 75000        \* last clock value of the TOTP specification (ms)
TotpTickMs == 15000         \* clock advance of one TotpTick (ms)

(***************************************************************************)
(* Program constants                                                       *)
(***************************************************************************)
TimeStep == 30              \* generateTOTP(secret, timeStep = 30); verifyTOTP: timeStep = 30
DefaultWindow == 1          \* verifyTOTP(secret, code, window = 1)
CodeModulus == 1000000      \* code % 1000000
CodeDigits == 6             \* padStart(6, '0')

Pow2(n) == 2 ^ n

(***************************************************************************)
(* base32Decode                                                            *)
(***************************************************************************)
Base32Chars ==
    << "A","B","C","D","E","F","G","H","I","J","K","L","M","N","O","P",
       "Q","R","S","T","U","V","W","X","Y","Z","2","3","4","5","6","7" >>

LowerChars ==
    << "a","b","c","d","e","f","g","h","i","j","k","l","m","n","o","p",
       "q","r","s","t","u","v","w","x","y","z" >>

\* String.prototype.toUpperCase on one character.
ToUpperCase(ch) ==
    IF \E k \in 1..Len(LowerChars) : LowerChars[k] = ch
    THEN Base32Chars[CHOOSE k \in 1..Len(LowerChars) : LowerChars[k] = ch]
    ELSE ch

\* base32Chars.indexOf(char): the 0-based index, -1 when absent.
IndexOf(ch) ==
    IF \E k \in 1..Len(Base32Chars) : Base32Chars[k] = ch
    THEN (CHOOSE k \in 1..Len(Base32Chars) : Base32Chars[k] = ch) - 1
    ELSE -1

\* The loop of base32Decode from position i on, with the accumulator (value, bits)
\* and the bytes pushed so far.
RECURSIVE Base32Loop(_, _, _, _, _)
Base32Loop(encoded, i, value, bits, result) ==
    IF i > Len(encoded) THEN result
    ELSE
        LET index == IndexOf(ToUpperCase(encoded[i]))
        IN  IF index = -1
            THEN Base32Loop(encoded, i + 1, value, bits, result)
            ELSE
                \* (value << 5) | index wraps at 32 bits; a pushed byte reads bits
                \* (bits - 8)..(bits - 1) with bits <= 12, so the low 16 bits decide it.
                LET v2 == (value * 32 + index) % Pow2(16)
                    b2 == bits + 5
                IN  IF b2 >= 8
                    THEN Base32Loop(encoded, i + 1, v2, b2 - 8,
                            \* (value >>> (bits - 8)) & 0xff
                            Append(result, (v2 \div Pow2(b2 - 8)) % 256))
                    ELSE Base32Loop(encoded, i + 1, v2, b2, result)

base32Decode(encoded) == Base32Loop(encoded, 1, 0, 0, << >>)

(***************************************************************************)
(* generateTOTP                                                            *)
(***************************************************************************)
\* The 8-byte big-endian buffer of the counter: buffer[7 - i] = counter & 0xff;
\* counter = counter >> 8. The counter is below 2^31 (it is 2^31 in the year 4011),
\* so >> sees it whole; from the fifth shift on only the sign is left.
CounterBuffer(counter) ==
    [k \in 1..8 |->
        LET i == 8 - k
        IN  IF i >= 4 THEN (IF counter < 0 THEN 255 ELSE 0)
            ELSE (counter \div Pow2(8 * i)) % 256]

DigitChars == << "0", "1", "2", "3", "4", "5", "6", "7", "8", "9" >>

\* Number.prototype.toString of a non-negative integer, as a sequence of characters.
RECURSIVE ToDigits(_)
ToDigits(n) ==
    IF n < 10 THEN << DigitChars[n + 1] >>
    ELSE Append(ToDigits(n \div 10), DigitChars[(n % 10) + 1])

\* String.prototype.padStart(width, '0').
RECURSIVE PadStart(_, _)
PadStart(s, width) == IF Len(s) >= width THEN s ELSE PadStart(<< "0" >> \o s, width)

\* Lines 64-83 of generateTOTP for a given counter: buffer, key, HMAC-SHA1 digest
\* with dynamic truncation (hmacTable), % 1000000, padStart(6, '0').
GenerateTOTPForCounter(secret, counter) ==
    LET buffer == CounterBuffer(counter)
        key == base32Decode(secret)
        code == hmacTable[<< key, buffer >>]
    IN  PadStart(ToDigits(code % CodeModulus), CodeDigits)

\* Math.floor(Date.now() / 1000 / timeStep)
CurrentCounter(timeStep) == (now \div 1000) \div timeStep

generateTOTP(secret, timeStep) == GenerateTOTPForCounter(secret, CurrentCounter(timeStep))

(***************************************************************************)
(* verifyTOTP                                                              *)
(***************************************************************************)
\* for (i = -window; i <= window; i++) { if (code === generateTOTP(secret, 30)) return true }
verifyTOTP_WrongStep(secret, code, window) ==
    \E i \in (0 - window)..window : code = generateTOTP(secret, 2 * TimeStep)

verifyTOTP(secret, code, window) ==
    \E i \in (0 - window)..window : code = generateTOTP(secret, TimeStep)

(***************************************************************************)
(* Inputs of the TOTP specification                                        *)
(***************************************************************************)
SecretMZ == << "M", "Z" >>
SecretLower == << "m", "1", "z" >>     \* lower case and a character outside base32
TotpSecrets == { SecretMZ, SecretLower }
TotpKeys == { base32Decode(s) : s \in TotpSecrets }

Windows == 0..DefaultWindow

TotpTimes == { t \in TotpStartTime..TotpMaxTime : (t - TotpStartTime) % TotpTickMs = 0 }
TotpCounters ==
    { (t \div 1000) \div TimeStep + i : t \in TotpTimes, i \in (0 - DefaultWindow)..DefaultWindow }
        \cup { (t \div 1000) \div (2 * TimeStep) : t \in TotpTimes }

\* Values of the truncated 31-bit HMAC integer the table may hold.
BinCodes == { 7, 123456, 1123456 }
AllCodes == { PadStart(ToDigits(b % CodeModulus), CodeDigits) : b \in BinCodes } \cup { << "7" >> }

\* The state of the blacklist service before initializeBlacklist has run.
BlIdle ==
    /\ blacklistCache = << >>
    /\ dbBlacklist = << >>
    /\ securityLog = << >>
    /\ lastAdd = << >>
    /\ lastBl = NoCall

\* No account in the user table takes part.
\* No request is in the middleware chain, no call is in progress, no session is stored.
ReqIdle ==
    /\ req = [stage |-> "none"]
    /\ failedLogins = << >>
    /\ awaiting = << >>
    /\ userSession = << >>

\* No address has been resolved: the geolocation cache is empty.
GeoIdle ==
    /\ cache = << >>
    /\ lastGeo = NoCall

\* No retention cleanup has run.
AuditIdle == lastAudit = NoCall

TfaIdle ==
    /\ user = << >>
    /\ randomCount = 0
    /\ auditLog = << >>
    /\ last2fa = NoCall

TotpInit ==
    /\ now = TotpStartTime
    /\ BlIdle
    /\ TfaIdle
    /\ ReqIdle
    /\ GeoIdle
    /\ AuditIdle
    /\ hmacTable \in [ TotpKeys \X { CounterBuffer(c) : c \in TotpCounters } -> BinCodes ]
    /\ issued = NoCall
    /\ lastVerify = NoCall

TotpTick ==
    /\ now + TotpTickMs <= TotpMaxTime
    /\ now' = now + TotpTickMs
    /\ UNCHANGED << totpVars, nonTotpVars >>

GenerateTOTP ==
    \E secret \in TotpSecrets :
        /\ issued' = [op |-> "generate", secret |-> secret,
                      code |-> generateTOTP(secret, TimeStep),
                      counter |-> CurrentCounter(TimeStep)]
        /\ UNCHANGED << now, hmacTable, lastVerify, nonTotpVars >>

VerifyTOTP ==
    \E secret \in TotpSecrets, code \in AllCodes, window \in Windows :
        /\ lastVerify' = [op |-> "verify", secret |-> secret, code |-> code,
                          window |-> window, counter |-> CurrentCounter(TimeStep),
                          result |-> verifyTOTP(secret, code, window)]
        /\ UNCHANGED << now, hmacTable, issued, nonTotpVars >>

TotpNext == TotpTick \/ GenerateTOTP \/ VerifyTOTP

vars == << now, totpVars, blVars, tfaVars, reqVars, geoVars, auditVars >>

SpecTOTP == TotpInit /\ [][TotpNext]_vars

(***************************************************************************)
(* IPBlacklistService                                                      *)
(***************************************************************************)
BlStartTime == 60000        \* first clock value of the blacklist specification (ms)
BlMaxTime == 180000         \* last clock value of the blacklist specification (ms)
BlTickMs == 30000           \* clock advance of one BlTick (ms)
MaxDuration == 1            \* longest duration (minutes) of a manual addToBlacklist
MaxSecurityLog == 1         \* rows the securityLog table takes before its writes fail
EscMaxTime == 90000         \* last clock value of the escalation specification (ms)

MsPerMinute == 60000        \* data.duration * 60 * 1000

Null == << >>               \* null
DateOf(ms) == << ms >>      \* new Date(ms)

\* Map.prototype.set, and the row an upsert leaves.
Put(m, k, v) == [x \in DOMAIN m \cup {k} |-> IF x = k THEN v ELSE m[x]]
\* Map.prototype.delete, and the table a delete leaves.
Remove(m, k) == [x \in DOMAIN m \ {k} |-> m[x]]

\* entry.expiresAt && entry.expiresAt < new Date()
IsExpired(expiresAt) == expiresAt # Null /\ expiresAt[1] < now

\* data.duration ? new Date(Date.now() + data.duration * 60 * 1000) : null
ExpiresAtOf_Seconds(duration) ==
    IF duration # 0 THEN DateOf(now + duration * 1000) ELSE Null

ExpiresAtOf(duration) ==
    IF duration # 0 THEN DateOf(now + duration * MsPerMinute) ELSE Null

\* The map addToBlacklist leaves: the entry is set after the awaited upsert, so a
\* rejected upsert jumps to the catch block before the map is touched.
CacheAfterAdd_SetFirst(written, ip, entry) == Put(blacklistCache, ip, entry)

CacheAfterAdd(written, ip, entry) ==
    IF written THEN Put(blacklistCache, ip, entry) ELSE blacklistCache

\* The map removeFromBlacklist leaves: the delete follows the awaited store delete.
CacheAfterRemove(deleted, ip) ==
    IF deleted THEN Remove(blacklistCache, ip) ELSE blacklistCache

\* addToBlacklist(data): upsert, then the map; returns true, or false from the catch.
\* dbOk says whether the store accepts the upsert.
addToBlacklist(ip, reason, duration, source, dbOk) ==
    LET expiresAt == ExpiresAtOf(duration)
    IN  /\ dbBlacklist' =
            IF dbOk
            THEN Put(dbBlacklist, ip,
                     [reason |-> reason, expiresAt |-> expiresAt, source |-> source])
            ELSE dbBlacklist
        /\ blacklistCache' = CacheAfterAdd(dbOk, ip, [reason |-> reason, expiresAt |-> expiresAt])
        /\ lastAdd' =
            IF dbOk
            THEN Put(lastAdd, ip, [timed |-> duration # 0, until |-> now + duration * 60 * 1000])
            ELSE lastAdd

\* if (data.count >= data.threshold)
ShouldBlacklist_Above(count, threshold) == count > threshold

ShouldBlacklist(count, threshold) == count >= threshold

\* switch (data.activity): the duration in minutes.
ActivityDuration(activity) ==
    CASE activity = "LOGIN_FAILED" -> 30
      [] activity = "RATE_LIMIT_EXCEEDED" -> 60
      [] activity = "UNAUTHORIZED_ACCESS" -> 120
      [] activity = "FILE_UPLOAD_VIOLATION" -> 240
      [] OTHER -> 60

\* `Suspicious activity detected: ${data.activity} (${data.count} attempts)`
SuspiciousReason(activity, count) == << "Suspicious activity detected", activity, count >>

\* AuditService.logSecurityEvent: one row more, unless the create is rejected, which
\* the catch block swallows.
\* await prisma.<table>.create({ data }): the row is added, or the write is
\* rejected and the await throws.
Create(table, row, writeOk) ==
    IF writeOk
    THEN [ ret |-> Returned(<< >>), table |-> Append(table, row) ]
    ELSE [ ret |-> Thrown, table |-> table ]

SwallowLogFailure_Rethrow(outcome) == outcome

\* catch (error) { logger.error('Failed to log ...', error); }
SwallowLogFailure(outcome) ==
    IF outcome.ret.ok THEN outcome ELSE [ outcome EXCEPT !.ret = Returned(<< >>) ]

\* A call of AuditService.logSecurityEvent: how it ends and the table it leaves.
SecurityEventLogged(action, ip, severity, logOk) ==
    SwallowLogFailure(Create(securityLog, [action |-> action, ipAddress |-> ip,
                                           severity |-> severity, timestamp |-> now], logOk))

logSecurityEvent(action, ip, severity, logOk) ==
    securityLog' = SecurityEventLogged(action, ip, severity, logOk).table

LogOutcomes == IF Len(securityLog) < MaxSecurityLog THEN BOOLEAN ELSE { FALSE }

IPs == { "10.0.0.1", "203.0.113.7" }
Durations == 0..MaxDuration          \* 0: no duration given (permanent)
Activities == { "LOGIN_FAILED", "RATE_LIMIT_EXCEEDED", "UNAUTHORIZED_ACCESS",
                "FILE_UPLOAD_VIOLATION", "PASSWORD_SPRAY" }
Counts == { 4, 5 }
Thresholds == { 5 }

\* The rows the store may hold when the process starts.
StoredAtStart ==
    { << >>,
      [ip \in { "203.0.113.7" } |->
          [reason |-> "manual", expiresAt |-> Null, source |-> "MANUAL"]] }

BlInit ==
    /\ now = BlStartTime
    /\ blacklistCache = << >>
    /\ dbBlacklist \in StoredAtStart
    /\ securityLog = << >>
    /\ lastAdd = << >>
    /\ lastBl = NoCall
    /\ hmacTable = << >>
    /\ issued = NoCall
    /\ lastVerify = NoCall
    /\ TfaIdle
    /\ ReqIdle
    /\ GeoIdle
    /\ AuditIdle

BlTick ==
    /\ now + BlTickMs <= BlMaxTime
    /\ now' = now + BlTickMs
    /\ lastBl' = [op |-> "tick"]
    /\ UNCHANGED << nonBlVars, blacklistCache, dbBlacklist, securityLog, lastAdd >>

\* where: { OR: [{ expiresAt: null }, { expiresAt: { gt: new Date() } }] }
IsLoadable(expiresAt) == expiresAt = Null \/ expiresAt[1] > now

\* The rows findMany returns, as the entries the forEach sets.
LoadedEntries ==
    [ip \in { i \in DOMAIN dbBlacklist : IsLoadable(dbBlacklist[i].expiresAt) } |->
        [reason |-> dbBlacklist[ip].reason, expiresAt |-> dbBlacklist[ip].expiresAt]]

\* The map initializeCache leaves: clear(), then one set per row found; a rejected
\* findMany jumps to the catch block before the clear.
CacheAfterLoad_NoClear(loaded, entries) ==
    IF loaded
    THEN [ip \in DOMAIN blacklistCache \cup DOMAIN entries |->
            IF ip \in DOMAIN entries THEN entries[ip] ELSE blacklistCache[ip]]
    ELSE blacklistCache

CacheAfterLoad(loaded, entries) == IF loaded THEN entries ELSE blacklistCache

InitializeCache ==
    \E dbOk \in BOOLEAN :
        /\ blacklistCache' = CacheAfterLoad(dbOk, LoadedEntries)
        /\ lastBl' = [op |-> "initializeCache", dbOk |-> dbOk]
        /\ UNCHANGED << now, nonBlVars, dbBlacklist, securityLog, lastAdd >>

\* isBlacklisted(ipAddress): the lookup, evicting an expired entry.
IsBlacklisted ==
    \E ip \in IPs :
        LET found == ip \in DOMAIN blacklistCache
            expired == found /\ IsExpired(blacklistCache[ip].expiresAt)
        IN  /\ blacklistCache' = IF expired THEN Remove(blacklistCache, ip) ELSE blacklistCache
            /\ lastBl' = [op |-> "isBlacklisted", ip |-> ip, result |-> found /\ ~expired]
            /\ UNCHANGED << now, nonBlVars, dbBlacklist, securityLog, lastAdd >>

\* getBlacklistReason(ipAddress): string | null.  The string returned is held
\* in a one-element tuple, null is the empty tuple.
getBlacklistReason(ipAddress) ==
    LET blacklistEntry == IF ipAddress \in DOMAIN blacklistCache
                          THEN << blacklistCache[ipAddress] >>
                          ELSE Null
    IN  IF blacklistEntry # Null THEN << blacklistEntry[1].reason >> ELSE Null

AddToBlacklist ==
    \E ip \in IPs, duration \in Durations, dbOk \in BOOLEAN :
        /\ addToBlacklist(ip, "manual", duration, "MANUAL", dbOk)
        /\ lastBl' = [op |-> "addToBlacklist", ip |-> ip, duration |-> duration,
                      dbOk |-> dbOk, result |-> dbOk]
        /\ UNCHANGED << now, nonBlVars, securityLog >>

\* removeFromBlacklist(ipAddress): the store's delete rejects when it has no such row.
RemoveFromBlacklist ==
    \E ip \in IPs, dbOk \in BOOLEAN :
        LET deleted == dbOk /\ ip \in DOMAIN dbBlacklist
        IN  /\ dbBlacklist' = IF deleted THEN Remove(dbBlacklist, ip) ELSE dbBlacklist
            /\ blacklistCache' = CacheAfterRemove(deleted, ip)
            /\ lastAdd' = IF deleted THEN Remove(lastAdd, ip) ELSE lastAdd
            /\ lastBl' = [op |-> "removeFromBlacklist", ip |-> ip,
                          dbOk |-> deleted, result |-> deleted]
            /\ UNCHANGED << now, nonBlVars, securityLog >>

HandleSuspiciousActivity ==
    \E ip \in IPs, activity \in Activities, count \in Counts, threshold \in Thresholds,
       dbOk \in BOOLEAN, logOk \in LogOutcomes :
        /\ IF ShouldBlacklist(count, threshold)
           THEN /\ addToBlacklist(ip, SuspiciousReason(activity, count),
                                  ActivityDuration(activity), "AUTOMATIC", dbOk)
                /\ logSecurityEvent("SUSPICIOUS_ACTIVITY", ip, "HIGH", logOk)
           ELSE UNCHANGED << blacklistCache, dbBlacklist, lastAdd, securityLog >>
        /\ lastBl' = [op |-> "handleSuspiciousActivity", ip |-> ip, activity |-> activity,
                      count |-> count, threshold |-> threshold, dbOk |-> dbOk]
        /\ UNCHANGED << now, nonBlVars >>

\* What a sweep at the present time keeps: deleteMany takes the rows with
\* expiresAt < new Date(), the loop over the map the entries with
\* entry.expiresAt && entry.expiresAt < new Date().
SweepKeeps_Permanent(expiresAt) == expiresAt = Null

SweepKeeps(expiresAt) == ~IsExpired(expiresAt)

\* isBlacklisted(ip) as a lookup would answer it on the map m at the present time.
BlacklistedIn(m, ip) == ip \in DOMAIN m /\ ~IsExpired(m[ip].expiresAt)

\* cleanupExpiredEntries: deleteMany of the expired rows, then the same sweep over
\* the map; a rejected deleteMany skips the sweep and returns 0.
CleanupExpiredEntries ==
    \E dbOk \in BOOLEAN :
        LET stay == { ip \in DOMAIN dbBlacklist : SweepKeeps(dbBlacklist[ip].expiresAt) }
            kept == { ip \in DOMAIN blacklistCache : SweepKeeps(blacklistCache[ip].expiresAt) }
        IN  /\ dbBlacklist' =
                IF dbOk THEN [ip \in stay |-> dbBlacklist[ip]] ELSE dbBlacklist
            /\ blacklistCache' =
                IF dbOk THEN [ip \in kept |-> blacklistCache[ip]] ELSE blacklistCache
            /\ lastBl' = [op |-> "cleanupExpiredEntries", dbOk |-> dbOk,
                          result |-> IF dbOk THEN Cardinality(DOMAIN dbBlacklist \ stay) ELSE 0,
                          evicted |-> IF dbOk THEN Cardinality(DOMAIN blacklistCache \ kept)
                                      ELSE 0]
            /\ UNCHANGED << now, nonBlVars, securityLog, lastAdd >>

\* The service under manual administration: lookups, adds, removes, reloads, sweeps.
BlNext ==
    \/ BlTick
    \/ InitializeCache
    \/ IsBlacklisted
    \/ AddToBlacklist
    \/ RemoveFromBlacklist
    \/ CleanupExpiredEntries

SpecBL == BlInit /\ [][BlNext]_vars

EscTick ==
    /\ now + BlTickMs <= EscMaxTime
    /\ now' = now + BlTickMs
    /\ lastBl' = [op |-> "tick"]
    /\ UNCHANGED << nonBlVars, blacklistCache, dbBlacklist, securityLog, lastAdd >>

\* The service under automatic escalation.
EscNext ==
    \/ EscTick
    \/ IsBlacklisted
    \/ HandleSuspiciousActivity
    \/ RemoveFromBlacklist
    \/ CleanupExpiredEntries

SpecEsc == BlInit /\ [][EscNext]_vars

(***************************************************************************)
(* IPBlacklistService under concurrent calls.  A call runs up to its await *)
(* (the store operation it awaits takes effect), is suspended, and its     *)
(* continuation runs later; the continuations of concurrent calls run in   *)
(* any order, since the store answers over a pool of connections.          *)
(***************************************************************************)
MaxCalls == 3               \* calls started in one run

\* A call suspended at its await, with the locals its continuation reads.
Suspend(op, ip, settled, locals) ==
    [op |-> op, pc |-> "await", ip |-> ip, settled |-> settled, locals |-> locals]

\* A call that has returned.
Complete(call, result) == [op |-> call.op, pc |-> "done", ip |-> call.ip, result |-> result]

AllCompleted == \A i \in DOMAIN awaiting : awaiting[i].pc = "done"

AsyncUnchanged ==
    UNCHANGED << now, totpVars, tfaVars, geoVars, auditVars, req, failedLogins,
                 userSession, securityLog, lastAdd >>

\* addToBlacklist up to `await prisma.iPBlacklist.upsert(...)`.
BeginAddToBlacklist ==
    /\ Len(awaiting) < MaxCalls
    /\ \E ip \in IPs, duration \in Durations, dbOk \in BOOLEAN :
        LET expiresAt == ExpiresAtOf(duration)
        IN  /\ dbBlacklist' =
                IF dbOk
                THEN Put(dbBlacklist, ip,
                         [reason |-> "manual", expiresAt |-> expiresAt, source |-> "MANUAL"])
                ELSE dbBlacklist
            /\ awaiting' = Append(awaiting,
                    Suspend("addToBlacklist", ip, dbOk,
                            [reason |-> "manual", expiresAt |-> expiresAt]))
    /\ lastBl' = [op |-> "addToBlacklist"]
    /\ UNCHANGED blacklistCache
    /\ AsyncUnchanged

\* addToBlacklist after the await: blacklistCache.set and return true, or the catch.
ResumeAddToBlacklist ==
    /\ \E i \in DOMAIN awaiting :
        /\ awaiting[i].op = "addToBlacklist"
        /\ awaiting[i].pc = "await"
        /\ blacklistCache' = CacheAfterAdd(awaiting[i].settled, awaiting[i].ip, awaiting[i].locals)
        /\ awaiting' = [awaiting EXCEPT ![i] = Complete(@, @.settled)]
    /\ lastBl' = [op |-> "addToBlacklist"]
    /\ UNCHANGED dbBlacklist
    /\ AsyncUnchanged

\* removeFromBlacklist up to `await prisma.iPBlacklist.delete(...)`.
BeginRemoveFromBlacklist ==
    /\ Len(awaiting) < MaxCalls
    /\ \E ip \in IPs, dbOk \in BOOLEAN :
        LET deleted == dbOk /\ ip \in DOMAIN dbBlacklist
        IN  /\ dbBlacklist' = IF deleted THEN Remove(dbBlacklist, ip) ELSE dbBlacklist
            /\ awaiting' = Append(awaiting, Suspend("removeFromBlacklist", ip, deleted, << >>))
    /\ lastBl' = [op |-> "removeFromBlacklist"]
    /\ UNCHANGED blacklistCache
    /\ AsyncUnchanged

\* removeFromBlacklist after the await: blacklistCache.delete and return true, or the catch.
ResumeRemoveFromBlacklist ==
    /\ \E i \in DOMAIN awaiting :
        /\ awaiting[i].op = "removeFromBlacklist"
        /\ awaiting[i].pc = "await"
        /\ blacklistCache' = CacheAfterRemove(awaiting[i].settled, awaiting[i].ip)
        /\ awaiting' = [awaiting EXCEPT ![i] = Complete(@, @.settled)]
    /\ lastBl' = [op |-> "removeFromBlacklist"]
    /\ UNCHANGED dbBlacklist
    /\ AsyncUnchanged

\* initializeCache up to `await prisma.iPBlacklist.findMany(...)`.
BeginInitializeCache ==
    /\ Len(awaiting) < MaxCalls
    /\ \E dbOk \in BOOLEAN :
        awaiting' = Append(awaiting,
            Suspend("initializeCache", "", dbOk, IF dbOk THEN LoadedEntries ELSE << >>))
    /\ lastBl' = [op |-> "initializeCache"]
    /\ UNCHANGED << blacklistCache, dbBlacklist >>
    /\ AsyncUnchanged

\* initializeCache after the await: clear() and one set per row found, or the catch.
ResumeInitializeCache ==
    /\ \E i \in DOMAIN awaiting :
        /\ awaiting[i].op = "initializeCache"
        /\ awaiting[i].pc = "await"
        /\ blacklistCache' = CacheAfterLoad(awaiting[i].settled, awaiting[i].locals)
        /\ awaiting' = [awaiting EXCEPT ![i] = Complete(@, @.settled)]
    /\ lastBl' = [op |-> "initializeCache"]
    /\ UNCHANGED dbBlacklist
    /\ AsyncUnchanged

\* The process after its startup: initializeCache has loaded the store into the map.
AsyncInit ==
    /\ now = BlStartTime
    /\ dbBlacklist \in StoredAtStart
    /\ blacklistCache = LoadedEntries
    /\ securityLog = << >>
    /\ lastAdd = << >>
    /\ lastBl = NoCall
    /\ hmacTable = << >>
    /\ issued = NoCall
    /\ lastVerify = NoCall
    /\ TfaIdle
    /\ ReqIdle
    /\ GeoIdle
    /\ AuditIdle

AsyncNext ==
    \/ BeginAddToBlacklist
    \/ ResumeAddToBlacklist
    \/ BeginRemoveFromBlacklist
    \/ ResumeRemoveFromBlacklist
    \/ BeginInitializeCache
    \/ ResumeInitializeCache

SpecAsync == AsyncInit /\ [][AsyncNext]_vars

(***************************************************************************)
(* The middleware chain of the app: helmet, cors, checkIPBlacklist,        *)
(* apiLimiter, trackSuspiciousActivity, ..., the routes.  The chain runs   *)
(* synchronously from the arrival of a request up to the first await,      *)
(* which is inside checkIPBlacklist after the lookup.                      *)
(***************************************************************************)
Methods == { "POST", "OPTIONS" }
MaxFailedLogins == 5        \* failed login responses counted per ip
Paths == { "/api/v1/auth/login" }

\* cors(): a request with the method OPTIONS is a preflight, which the
\* middleware answers itself (204) without calling next().
CorsAnswersPreflight(method) == method = "OPTIONS"

\* reason || 'IP blacklisted'
ReasonOrDefault(reason) == IF reason = "" THEN "IP blacklisted" ELSE reason

\* checkIPBlacklist after the lookup: the 403 branch, or next().
StageAfterCheck(blocked) == IF blocked THEN "denying" ELSE "apiLimiter"

\* A request arrives: helmet, cors, then checkIPBlacklist up to its first await
\* (getClientIP, isBlacklisted with its eviction, getBlacklistReason).
Arrive ==
    /\ req.stage \in { "none", "answered" }
    /\ \E ip \in IPs \cup { "unknown" }, method \in Methods, path \in Paths :
        LET found == ip \in DOMAIN blacklistCache
            expired == found /\ IsExpired(blacklistCache[ip].expiresAt)
            arrived == [ ip |-> ip, method |-> method, path |-> path, ran |-> {},
                         blacklisted |-> found /\ ~expired,
                         stored |-> IF found THEN blacklistCache[ip].reason ELSE "" ]
        IN  IF CorsAnswersPreflight(method)
            THEN /\ req' = arrived @@ [ stage |-> "answered", status |-> 204 ]
                 /\ UNCHANGED blacklistCache
            ELSE IF ip = "unknown"
            THEN /\ req' = arrived @@ [ stage |-> "answered", status |-> 400,
                                        error |-> "Unable to determine client IP address" ]
                 /\ UNCHANGED blacklistCache
            ELSE /\ blacklistCache' =
                        IF expired THEN Remove(blacklistCache, ip) ELSE blacklistCache
                 /\ req' = arrived @@
                        [ stage |-> StageAfterCheck(found /\ ~expired),
                          reason |-> IF found THEN blacklistCache[ip].reason ELSE "" ]
    /\ lastBl' = [op |-> "checkIPBlacklist"]
    /\ UNCHANGED << now, totpVars, tfaVars, geoVars, auditVars, failedLogins, awaiting, userSession,
                    dbBlacklist, securityLog, lastAdd >>

\* checkIPBlacklist, the 403 branch: the blocked request is logged (a failed
\* write is swallowed), then answered.
Deny ==
    /\ req.stage = "denying"
    /\ \E logOk \in LogOutcomes :
        /\ logSecurityEvent("UNAUTHORIZED_ACCESS", req.ip, "MEDIUM", logOk)
        /\ req' = IF SecurityEventLogged("UNAUTHORIZED_ACCESS", req.ip, "MEDIUM", logOk).ret.ok
                  THEN [ req EXCEPT !.stage = "answered" ] @@
                       [ status |-> 403, error |-> "Access denied",
                         answer |-> ReasonOrDefault(req.reason), logged |-> logOk ]
                  ELSE [ req EXCEPT !.stage = "rejected" ]   \* the middleware's promise rejects
    /\ lastBl' = [op |-> "checkIPBlacklist"]
    /\ UNCHANGED << now, totpVars, tfaVars, geoVars, auditVars, failedLogins, awaiting, userSession,
                    blacklistCache, dbBlacklist, lastAdd >>

\* app.use(apiLimiter): the request is counted and passed on, or answered 429.
ApiLimiter ==
    /\ req.stage = "apiLimiter"
    /\ \E limited \in BOOLEAN :
        req' = IF limited
               THEN [ req EXCEPT !.stage = "answered", !.ran = @ \cup { "apiLimiter" } ] @@
                    [ status |-> 429 ]
               ELSE [ req EXCEPT !.stage = "trackSuspiciousActivity",
                                 !.ran = @ \cup { "apiLimiter" } ]
    /\ lastBl' = [op |-> "apiLimiter"]
    /\ UNCHANGED << now, totpVars, tfaVars, geoVars, auditVars, failedLogins, awaiting, userSession,
                    blacklistCache, dbBlacklist, securityLog, lastAdd >>

\* trackSuspiciousActivity: wraps res.send for POST .../auth/login and calls next().
TrackSuspiciousActivity ==
    /\ req.stage = "trackSuspiciousActivity"
    /\ req' = [ req EXCEPT !.stage = "route", !.ran = @ \cup { "trackSuspiciousActivity" } ]
    /\ lastBl' = [op |-> "trackSuspiciousActivity"]
    /\ UNCHANGED << now, totpVars, tfaVars, geoVars, auditVars, failedLogins, awaiting, userSession,
                    blacklistCache, dbBlacklist, securityLog, lastAdd >>

\* How many failed login responses ip has been sent so far.
FailedLoginsOf(ip) == IF ip \in DOMAIN failedLogins THEN failedLogins[ip] ELSE 0

\* if (res.statusCode === 401 || res.statusCode === 400), inside the res.send
\* that is wrapped when req.path.includes('/auth/login') && req.method === 'POST'.
IsFailedLogin(path, method, status) ==
    /\ path = "/api/v1/auth/login"
    /\ method = "POST"
    /\ status \in { 401, 400 }

\* count: 1, threshold: 5 -- what the wrapped res.send reports for LOGIN_FAILED.
ReportedCount == 1
ReportedThreshold == 5

\* The route handler answers; for a failed login the wrapped res.send reports
\* LOGIN_FAILED with count 1 against the threshold 5.
Route ==
    /\ req.stage = "route"
    /\ \E status \in { 200, 401, 400 }, dbOk \in BOOLEAN, logOk \in LogOutcomes :
        /\ IsFailedLogin(req.path, req.method, status) =>
                FailedLoginsOf(req.ip) < MaxFailedLogins
        /\ req' = [ req EXCEPT !.stage = "answered", !.ran = @ \cup { "route" } ] @@
                  [ status |-> status ]
        /\ failedLogins' =
                IF IsFailedLogin(req.path, req.method, status)
                THEN (req.ip :> FailedLoginsOf(req.ip) + 1) @@ failedLogins
                ELSE failedLogins
        /\ IF IsFailedLogin(req.path, req.method, status)
                /\ ShouldBlacklist(ReportedCount, ReportedThreshold)
           THEN /\ addToBlacklist(req.ip, SuspiciousReason("LOGIN_FAILED", 1),
                                  ActivityDuration("LOGIN_FAILED"), "AUTOMATIC", dbOk)
                /\ logSecurityEvent("SUSPICIOUS_ACTIVITY", req.ip, "HIGH", logOk)
           ELSE UNCHANGED << blacklistCache, dbBlacklist, lastAdd, securityLog >>
    /\ lastBl' = [op |-> "route"]
    /\ UNCHANGED << now, totpVars, tfaVars, geoVars, auditVars, awaiting, userSession >>

\* The rows the store may hold when the process starts: none, a permanent row,
\* or a permanent row and a row that expires while the process runs.
ReqStoredAtStart ==
    StoredAtStart \cup
    { [ip \in IPs |->
        IF ip = "203.0.113.7"
        THEN [reason |-> "manual", expiresAt |-> Null, source |-> "MANUAL"]
        ELSE [reason |-> "Suspicious activity detected: LOGIN_FAILED (5 attempts)",
              expiresAt |-> DateOf(BlStartTime + BlTickMs + BlTickMs \div 2),
              source |-> "AUTOMATIC"]] }

ReqInit ==
    /\ now = BlStartTime
    /\ blacklistCache = << >>
    /\ dbBlacklist \in ReqStoredAtStart
    /\ securityLog = << >>
    /\ lastAdd = << >>
    /\ lastBl = NoCall
    /\ hmacTable = << >>
    /\ issued = NoCall
    /\ lastVerify = NoCall
    /\ TfaIdle
    /\ ReqIdle
    /\ GeoIdle
    /\ AuditIdle

\* Requests against a blacklist that is loaded at startup and ages.
ReqNext ==
    \/ BlTick
    \/ InitializeCache
    \/ Arrive
    \/ Deny
    \/ ApiLimiter
    \/ TrackSuspiciousActivity
    \/ Route

SpecReq == ReqInit /\ [][ReqNext]_vars

(***************************************************************************)
(* EncryptionService                                                       *)
(*                                                                         *)
(* Byte buffers are records of their length and of what they hold; a call  *)
(* that can throw returns Thrown or Returned(value).  The output of        *)
(* crypto.randomBytes is a number no stored value holds yet.               *)
(***************************************************************************)
ALGORITHM == "aes-256-gcm"
KEY_LENGTH == 32
IV_LENGTH == 16

randomBytes(size, k) == [bytes |-> size, random |-> randomCount + k]

\* ENCRYPTION_KEY is set to 64 hex characters: the key is these 32 bytes.
getEncryptionKey == [bytes |-> KEY_LENGTH, random |-> 0]

\* crypto.createCipheriv(algorithm, key, iv) and crypto.createDecipheriv:
\* aes-256-gcm takes a key of 256 bits and rejects any other key length;
\* the initialisation vector of GCM may have any length.
createCipheriv(algorithm, key, iv) ==
    IF algorithm = "aes-256-gcm" /\ key.bytes # KEY_LENGTH
    THEN Thrown
    ELSE Returned([key |-> key, iv |-> iv])

createDecipheriv(algorithm, key, iv) == createCipheriv(algorithm, key, iv)

\* The three parts "iv:tag:encrypted" of a ciphertext that the cipher
\* object made of (key, iv) produces for data.
Sealed(cipher, iv, data) ==
    << iv, [authKey |-> cipher.key, authIv |-> cipher.iv], [data |-> data] >>

encrypt(data) ==
    LET key == getEncryptionKey
        iv == randomBytes(IV_LENGTH, 1)
        cipher == createCipheriv(ALGORITHM, iv, key)
    IN  IF ~cipher.ok
        THEN Thrown                         \* 'Failed to encrypt data'
        ELSE Returned(Sealed(cipher.value, iv, data))

decrypt(encryptedData) ==
    LET key == getEncryptionKey
        parts == encryptedData
    IN  IF Len(parts) # 3
        THEN Thrown
        ELSE LET iv == parts[1]
                 tag == parts[2]
                 encrypted == parts[3]
                 decipher == createDecipheriv(ALGORITHM, iv, key)
             IN  IF ~decipher.ok
                 THEN Thrown                \* 'Failed to decrypt data'
                 ELSE IF tag = [authKey |-> decipher.value.key,
                                authIv |-> decipher.value.iv]
                      THEN Returned(encrypted.data)
                      ELSE Thrown           \* authentication tag mismatch

\* A salt is a string: '' is the empty sequence, a random salt holds the
\* number drawn.  pbkdf2Sync is a function of (data, salt) and nothing else;
\* its output is the record of the two.
NoSalt == << >>
RandomSalt(k) == << randomCount + k >>

hash(data, salt, random) ==
    LET useSalt == IF salt # NoSalt THEN salt ELSE random
    IN  [hash |-> [data |-> data, salt |-> useSalt], salt |-> useSalt]

verifyHash(data, storedHash, salt, random) ==
    LET computedHash == hash(data, salt, random).hash
    IN  storedHash = computedHash

(***************************************************************************)
(* ValidationService.validate with the schema twoFactorSetup               *)
(***************************************************************************)
SecretMinLength == 16
SecretMaxLength == 32

UpperBase32 == { Base32Chars[i] : i \in 1..Len(Base32Chars) }

\* /^[A-Z2-7]+=*$/
MatchesSecretPattern(value) ==
    \E k \in 1..Len(value) :
        /\ \A i \in 1..k : value[i] \in UpperBase32
        /\ \A i \in (k + 1)..Len(value) : value[i] = "="

\* /^\d{6}$/
MatchesCodePattern(value) ==
    /\ Len(value) = CodeDigits
    /\ \A i \in 1..Len(value) : \E d \in 1..Len(DigitChars) : value[i] = DigitChars[d]

ValidateTwoFactorSetup(secret, code) ==
    /\ secret # << >>
    /\ Len(secret) >= SecretMinLength
    /\ Len(secret) <= SecretMaxLength
    /\ MatchesSecretPattern(secret)
    /\ code # << >>
    /\ MatchesCodePattern(code)

(***************************************************************************)
(* TwoFactorService: the 2FA credential of one user                        *)
(***************************************************************************)
NumBackupCodes == 2         \* generateBackupCodes(count = 10), scaled down
MaxRegenerations == 2       \* bounds randomCount
MaxAuditLog == 1
TfaMaxTime == 60000

MaxRandom == MaxRegenerations * NumBackupCodes

UserId == "user-1"

\* crypto.randomBytes(4).toString('hex').toUpperCase(): 8 characters.
BackupCodeA == << "0", "0", "A", "1", "B", "2", "C", "3" >>
BackupCodeB == << "F", "F", "9", "E", "8", "D", "7", "C" >>
BackupCodeValues == { BackupCodeA, BackupCodeB }

\* generateBackupCodes(count): count independent random codes.
generateBackupCodes(count) == [ 1..count -> BackupCodeValues ]

\* backupCodes.map(code => EncryptionService.hash(code).hash): each call of
\* hash draws its own salt, and only the hash is kept.
HashedBackupCodes(backupCodes) ==
    [ i \in 1..Len(backupCodes) |-> hash(backupCodes[i], NoSalt, RandomSalt(i)).hash ]

\* The 2FA columns of a new row of the user table.
FreshRow ==
    [ twoFactorEnabled |-> FALSE,
      twoFactorSecret |-> Null,
      twoFactorBackupCodes |-> << >>,
      twoFactorEnabledAt |-> Null,
      twoFactorDisabledAt |-> Null ]

\* data of prisma.user.update in enable2FA
EnabledRow(row, encryptedSecret, hashedBackupCodes) ==
    [ row EXCEPT !.twoFactorEnabled = TRUE,
                 !.twoFactorSecret = encryptedSecret,
                 !.twoFactorBackupCodes = hashedBackupCodes,
                 !.twoFactorEnabledAt = DateOf(now) ]

\* TwoFactorService.enable2FA: the row it leaves and what it returns.
enable2FA(row, secret, backupCodes, dbOk) ==
    LET encryptedSecret == encrypt(secret)
    IN  IF ~encryptedSecret.ok \/ ~dbOk
        THEN [ result |-> FALSE, row |-> row, stored |-> 0 ]
        ELSE [ result |-> TRUE,
               row |-> EnabledRow(row, encryptedSecret.value, HashedBackupCodes(backupCodes)),
               stored |-> Len(backupCodes) ]

\* data of prisma.user.update in disable2FA
DisabledRow_KeepSecret(row) ==
    [ row EXCEPT !.twoFactorEnabled = FALSE,
                 !.twoFactorBackupCodes = << >>,
                 !.twoFactorEnabledAt = Null,
                 !.twoFactorDisabledAt = DateOf(now) ]
DisabledRow(row) ==
    [ row EXCEPT !.twoFactorEnabled = FALSE,
                 !.twoFactorSecret = Null,
                 !.twoFactorBackupCodes = << >>,
                 !.twoFactorEnabledAt = Null,
                 !.twoFactorDisabledAt = DateOf(now) ]

\* data of prisma.user.update in regenerateBackupCodes
RegeneratedRow_Append(row, hashedBackupCodes) ==
    [ row EXCEPT !.twoFactorBackupCodes = row.twoFactorBackupCodes \o hashedBackupCodes ]
RegeneratedRow(row, hashedBackupCodes) ==
    [ row EXCEPT !.twoFactorBackupCodes = hashedBackupCodes ]

\* user.twoFactorBackupCodes.filter((_, index) => index !== i)
FilterIndex(list, i) ==
    [ k \in 1..(Len(list) - 1) |-> IF k < i THEN list[k] ELSE list[k + 1] ]

Rejected == [ success |-> FALSE, isBackupCode |-> FALSE ]

\* TwoFactorService.verify2FACode: what it returns and the row it leaves.
verify2FACode(row, code, readOk, writeOk) ==
    IF ~readOk
    THEN [ answer |-> Rejected, row |-> row ]
    ELSE IF ~row.twoFactorEnabled \/ row.twoFactorSecret = Null
    THEN [ answer |-> Rejected, row |-> row ]
    ELSE
        LET secret == decrypt(row.twoFactorSecret)
        IN  IF ~secret.ok
            THEN [ answer |-> Rejected, row |-> row ]
            ELSE IF verifyTOTP(secret.value, code, DefaultWindow)
            THEN [ answer |-> [ success |-> TRUE, isBackupCode |-> FALSE ], row |-> row ]
            ELSE
                LET stored == row.twoFactorBackupCodes
                    matching == { i \in 1..Len(stored) :
                                    verifyHash(code, stored[i], NoSalt, RandomSalt(i)) }
                IN  IF matching = {}
                    THEN [ answer |-> Rejected, row |-> row ]
                    ELSE
                        LET i == CHOOSE m \in matching : \A n \in matching : m <= n
                        IN  IF ~writeOk
                            THEN [ answer |-> Rejected, row |-> row ]
                            ELSE [ answer |-> [ success |-> TRUE, isBackupCode |-> TRUE ],
                                   row |-> [ row EXCEPT !.twoFactorBackupCodes =
                                                            FilterIndex(stored, i) ] ]

is2FAEnabled(row, readOk) == IF readOk THEN row.twoFactorEnabled ELSE FALSE

\* AuditService.logUserAction: a failed create is logged and swallowed.
logUserAction(action, success, logOk) ==
    SwallowLogFailure(Create(auditLog,
                             [ userId |-> UserId, action |-> action, resource |-> "SECURITY",
                               success |-> success, timestamp |-> DateOf(now) ],
                             logOk)).table

\* A write that stores new random values is rejected once MaxRandom of them
\* are stored.
StoreOutcomes == IF randomCount + NumBackupCodes <= MaxRandom THEN BOOLEAN ELSE { FALSE }

AuditOutcomes == IF Len(auditLog) < MaxAuditLog THEN BOOLEAN ELSE { FALSE }

(***************************************************************************)
(* Inputs of the 2FA specification                                         *)
(***************************************************************************)
SecretWellFormed ==
    << "J","B","S","W","Y","3","D","P","E","H","P","K","3","P","X","P" >>
\* what generateSecret returns: base64 characters, lower case among them
SecretBase64 ==
    << "j","B","s","W","y","3","D","p","E","H","p","k","3","P","x","P" >>
TfaSecrets == { SecretWellFormed, SecretBase64 }
TfaKeys == { base32Decode(s) : s \in TfaSecrets }

TfaTimes == { t \in TotpStartTime..TfaMaxTime : (t - TotpStartTime) % TotpTickMs = 0 }
TfaCounters == { (t \div 1000) \div TimeStep : t \in TfaTimes }

TfaBinCodes == { 7, 123456 }
TotpCodes == { PadStart(ToDigits(b % CodeModulus), CodeDigits) : b \in TfaBinCodes }
SetupCodes == TotpCodes \cup { << "7" >> }
LoginCodes == TotpCodes \cup BackupCodeValues

\* The ciphertext of the secret under the configured key, as AES-256-GCM
\* produces it for a fresh 16-byte initialisation vector.
StoredSecretOf(secret) ==
    LET iv == [ bytes |-> IV_LENGTH, random |-> 0 ]
    IN  Sealed([ key |-> getEncryptionKey, iv |-> iv ], iv, secret)

\* The backup codes issued to the account that is enabled at the start.
IssuedAtStart == [ i \in 1..NumBackupCodes |-> IF i = 1 THEN BackupCodeA ELSE BackupCodeB ]

\* The user table is persisted: the row at the start is a new account, or an
\* account whose credential is enabled, with its secret encrypted and its
\* issued backup codes hashed with the salts 1..NumBackupCodes.
RowsAtStart ==
    { FreshRow,
      [ twoFactorEnabled |-> TRUE,
        twoFactorSecret |-> StoredSecretOf(SecretWellFormed),
        twoFactorBackupCodes |->
            [ i \in 1..NumBackupCodes |-> hash(IssuedAtStart[i], << i >>, NoSalt).hash ],
        twoFactorEnabledAt |-> DateOf(0),
        twoFactorDisabledAt |-> Null ] }

TfaInit ==
    /\ now = TotpStartTime
    /\ BlIdle
    /\ hmacTable \in [ TfaKeys \X { CounterBuffer(c) : c \in TfaCounters } -> TfaBinCodes ]
    /\ issued = NoCall
    /\ lastVerify = NoCall
    /\ user \in RowsAtStart
    /\ randomCount = NumBackupCodes
    /\ auditLog = << >>
    /\ last2fa = NoCall
    /\ ReqIdle
    /\ GeoIdle
    /\ AuditIdle

non2faVars == << issued, lastVerify, blVars, reqVars, geoVars, auditVars >>

TfaTick ==
    /\ now + TotpTickMs <= TfaMaxTime
    /\ now' = now + TotpTickMs
    /\ last2fa' = NoCall
    /\ UNCHANGED << hmacTable, non2faVars, user, randomCount, auditLog >>

\* SecurityController.enable2FA (POST /2fa/enable) for the authenticated user.
Enable2FA ==
    \E secret \in TfaSecrets, code \in SetupCodes :
        /\ LET call == [ op |-> "enable2FA", secret |-> secret, code |-> code ]
           IN  IF ~ValidateTwoFactorSetup(secret, code)
               THEN /\ last2fa' = call @@ [ status |-> 400, error |-> "Validation failed" ]
                    /\ UNCHANGED << user, randomCount, auditLog >>
               ELSE IF ~verifyTOTP(secret, code, DefaultWindow)
               THEN \E logOk \in AuditOutcomes :
                    /\ auditLog' = logUserAction("2FA_SETUP_FAILED", FALSE, logOk)
                    /\ last2fa' = call @@ [ status |-> 400, error |-> "Invalid 2FA code" ]
                    /\ UNCHANGED << user, randomCount >>
               ELSE \E backupCodes \in generateBackupCodes(NumBackupCodes),
                       dbOk \in StoreOutcomes :
                   LET enabled == enable2FA(user, secret, backupCodes, dbOk)
                   IN  /\ user' = enabled.row
                       /\ randomCount' = randomCount + enabled.stored
                       /\ IF ~enabled.result
                          THEN /\ last2fa' = call @@ [ status |-> 500, dbOk |-> dbOk,
                                                       error |-> "Failed to enable 2FA" ]
                               /\ UNCHANGED auditLog
                          ELSE \E readOk \in BOOLEAN, logOk \in AuditOutcomes :
                               IF ~readOk      \* findUnique of the email rejects
                               THEN /\ last2fa' = call @@ [ status |-> 500, dbOk |-> FALSE,
                                                            error |-> "Internal server error" ]
                                    /\ UNCHANGED auditLog
                               ELSE /\ auditLog' = logUserAction("2FA_ENABLED", TRUE, logOk)
                                    /\ last2fa' = call @@ [ status |-> 200, dbOk |-> TRUE,
                                                            backupCodes |-> backupCodes ]
        /\ UNCHANGED << now, hmacTable, non2faVars >>

\* TwoFactorService.disable2FA
Disable2FA ==
    \E dbOk \in BOOLEAN :
        /\ user' = IF dbOk THEN DisabledRow(user) ELSE user
        /\ last2fa' = [ op |-> "disable2FA", result |-> dbOk,
                        wasEnabled |-> user.twoFactorEnabled ]
        /\ UNCHANGED << now, hmacTable, non2faVars, randomCount, auditLog >>

\* TwoFactorService.verify2FACode
Verify2FACode ==
    \E code \in LoginCodes, readOk \in BOOLEAN, writeOk \in BOOLEAN :
        LET verified == verify2FACode(user, code, readOk, writeOk)
        IN  /\ user' = verified.row
            /\ last2fa' = [ op |-> "verify2FACode", code |-> code, result |-> verified.answer,
                            dbOk |-> readOk /\ writeOk ]
            /\ UNCHANGED << now, hmacTable, non2faVars, randomCount, auditLog >>

\* TwoFactorService.regenerateBackupCodes
RegenerateBackupCodes ==
    \E newBackupCodes \in generateBackupCodes(NumBackupCodes), dbOk \in StoreOutcomes :
        /\ user' = IF dbOk THEN RegeneratedRow(user, HashedBackupCodes(newBackupCodes)) ELSE user
        /\ randomCount' = IF dbOk THEN randomCount + NumBackupCodes ELSE randomCount
        /\ last2fa' = [ op |-> "regenerateBackupCodes", dbOk |-> dbOk,
                        result |-> IF dbOk THEN newBackupCodes ELSE Null,
                        replaced |-> user.twoFactorBackupCodes ]
        /\ UNCHANGED << now, hmacTable, non2faVars, auditLog >>

TfaNext == TfaTick \/ Enable2FA \/ Disable2FA \/ Verify2FACode \/ RegenerateBackupCodes

Spec2FA == TfaInit /\ [][TfaNext]_vars

(***************************************************************************)
(* GeoLocationService: getLocation with its 24-hour cache and the          *)
(* local-address shortcut, and detectAnomalies over the login history.     *)
(***************************************************************************)
GeoStartTime == 86400000    \* Date.now() when the service starts, in ms
GeoTickMs == 43200000       \* the clock advances by twelve hours per step
GeoMaxTicks == 2            \* how many times the clock advances

CACHE_DURATION == 24 * 60 * 60 * 1000
MaxPreviousLogins == 5      \* take: 5
HIGH_RISK_COUNTRIES == { "KP", "IR", "SY", "CU", "RU" }

StartsWith(s, prefix) ==
    /\ Len(s) >= Len(prefix)
    /\ SubSeq(s, 1, Len(prefix)) = prefix

\* /^172\.(1[6-9]|2[0-9]|3[0-1])\./
MatchesPrivate172(ip) ==
    /\ Len(ip) >= 7
    /\ SubSeq(ip, 1, 4) = << "1", "7", "2", "." >>
    /\ \/ ip[5] = "1" /\ ip[6] \in { "6", "7", "8", "9" }
       \/ ip[5] = "2" /\ \E d \in 1..Len(DigitChars) : ip[6] = DigitChars[d]
       \/ ip[5] = "3" /\ ip[6] \in { "0", "1" }
    /\ ip[7] = "."

isLocalIP_LoopbackOnly(ip) ==
    \/ StartsWith(ip, << "1", "2", "7", "." >>)
    \/ ip = << ":", ":", "1" >>

\* localRanges.some(range => range.test(ip))
isLocalIP(ip) ==
    \/ StartsWith(ip, << "1", "2", "7", "." >>)
    \/ StartsWith(ip, << "1", "0", "." >>)
    \/ MatchesPrivate172(ip)
    \/ StartsWith(ip, << "1", "9", "2", ".", "1", "6", "8", "." >>)
    \/ StartsWith(ip, << "1", "6", "9", ".", "2", "5", "4", "." >>)
    \/ ip = << ":", ":", "1" >>
    \/ StartsWith(ip, << "f", "e", "8", "0", ":" >>)

getLocalLocation(ip) ==
    [ ip |-> ip, country |-> "Local", countryCode |-> "LOCAL", region |-> "Local Network",
      regionCode |-> "LOCAL", proxy |-> FALSE, vpn |-> FALSE, tor |-> FALSE ]

\* value || fallback, for a string field the provider may leave out
OrElse(value, fallback) == IF value = "" THEN fallback ELSE value

\* The GeoLocation built from a successful provider response.
LocationOf(ip, data) ==
    [ ip |-> ip,
      country |-> OrElse(data.country, "Unknown"),
      countryCode |-> OrElse(data.countryCode, "XX"),
      region |-> OrElse(data.regionName, "Unknown"),
      regionCode |-> OrElse(data.region, "XX"),
      proxy |-> data.proxy,
      vpn |-> data.proxy,
      tor |-> FALSE ]

IsFresh_Inclusive(entry, t) == t - entry.timestamp <= CACHE_DURATION

\* Date.now() - cached.timestamp < this.CACHE_DURATION
IsFresh(entry, t) == t - entry.timestamp < CACHE_DURATION

\* The body of getLocation's try block: what it returns or that it threw,
\* the cache it leaves, and whether axios.get was called.  answer is what
\* the provider does when asked.
LookUp(c, ip, t, answer) ==
    IF ip \in DOMAIN c /\ IsFresh(c[ip], t)
    THEN [ ret |-> Returned(c[ip].data), cache |-> c, called |-> FALSE ]
    ELSE IF isLocalIP(ip)
    THEN [ ret |-> Returned(getLocalLocation(ip)), cache |-> c, called |-> FALSE ]
    ELSE IF answer.kind # "response"
    THEN [ ret |-> Thrown, cache |-> c, called |-> TRUE ]
    ELSE IF answer.data.status = "success"
    THEN LET location == LocationOf(ip, answer.data)
         IN [ ret |-> Returned(location),
              cache |-> Put(c, ip, [ data |-> location, timestamp |-> t ]),
              called |-> TRUE ]
    ELSE [ ret |-> Returned(Null), cache |-> c, called |-> TRUE ]

CatchAll_Rethrow(outcome) == outcome

\* catch (error) { logger.error(...); return null; }
CatchAll(outcome) ==
    IF outcome.ret.ok THEN outcome ELSE [ outcome EXCEPT !.ret = Returned(Null) ]

getLocation(c, ip, t, answer) == CatchAll(LookUp(c, ip, t, answer))

\* where: { userId, action: 'LOGIN', success: true, ipAddress: { not: null } }
IsLoginWithIP_AnyOutcome(row, userId) ==
    /\ row.userId = userId
    /\ row.action = "LOGIN"
    /\ row.ipAddress # Null

IsLoginWithIP(row, userId) ==
    /\ row.userId = userId
    /\ row.action = "LOGIN"
    /\ row.success
    /\ row.ipAddress # Null

\* orderBy: { timestamp: 'desc' }
RECURSIVE OrderByTimestampDesc(_)
OrderByTimestampDesc(rows) ==
    IF rows = << >> THEN << >>
    ELSE LET i == CHOOSE k \in 1..Len(rows) :
                      /\ \A j \in 1..Len(rows) : rows[j].timestamp <= rows[k].timestamp
                      /\ \A j \in 1..(k - 1) : rows[j].timestamp < rows[k].timestamp
         IN << rows[i] >> \o OrderByTimestampDesc(SubSeq(rows, 1, i - 1) \o SubSeq(rows, i + 1, Len(rows)))

\* distinct: ['ipAddress'], keeping the first row of each address
RECURSIVE DistinctIPs(_)
DistinctIPs(rows) ==
    IF rows = << >> THEN << >>
    ELSE LET rest == DistinctIPs(SubSeq(rows, 1, Len(rows) - 1))
             last == rows[Len(rows)].ipAddress
         IN IF \E i \in 1..Len(rest) : rest[i] = last THEN rest ELSE Append(rest, last)

Take(s, n) == SubSeq(s, 1, IF Len(s) < n THEN Len(s) ELSE n)

\* prisma.auditLog.findMany(...), as the addresses of the rows it returns
previousLogins(log, userId) ==
    Take(DistinctIPs(OrderByTimestampDesc(SelectSeq(log, LAMBDA row : IsLoginWithIP(row, userId)))),
         MaxPreviousLogins)

\* Promise.all(ips.map(ip => this.getLocation(ip))): the addresses are
\* distinct, so the calls touch different keys of the cache.
RECURSIVE ResolveAll(_, _, _, _)
ResolveAll(c, ips, t, answers) ==
    IF ips = << >> THEN [ ok |-> TRUE, locations |-> << >>, cache |-> c, called |-> { } ]
    ELSE LET first == getLocation(c, ips[1], t, answers[ips[1]])
             rest == ResolveAll(first.cache, SubSeq(ips, 2, Len(ips)), t, answers)
         IN [ ok |-> first.ret.ok /\ rest.ok,
              locations |-> << IF first.ret.ok THEN first.ret.value ELSE Null >> \o rest.locations,
              cache |-> rest.cache,
              called |-> (IF first.called THEN { ips[1] } ELSE { }) \cup rest.called ]

Anomaly(type, severity, tenths) ==
    [ type |-> type, severity |-> severity, riskScore |-> tenths ]    \* riskScore in tenths

CountryChange_Never(previous, current) == FALSE

\* previousCountry && previousCountry !== currentLocation.countryCode
CountryChange(previous, current) ==
    previous # Null /\ previous.countryCode # current.countryCode

\* previousRegion && previousRegion !== currentLocation.regionCode
RegionChange(previous, current) ==
    previous # Null /\ previous.regionCode # current.regionCode

ProxyFlagged_TorOnly(current) == current.tor

\* currentLocation.proxy || currentLocation.vpn
ProxyFlagged(current) == current.proxy \/ current.vpn

UnusualHour(currentHour) == currentHour < 6 \/ currentHour > 23

When(condition, anomaly) == IF condition THEN << anomaly >> ELSE << >>

\* The checks of detectAnomalies once the current location and the history
\* are known; previous is previousLocations[0].
Checks(previous, current, currentHour) ==
    When(CountryChange(previous, current), Anomaly("COUNTRY_CHANGE", "HIGH", 8))
    \o When(RegionChange(previous, current), Anomaly("REGION_CHANGE", "MEDIUM", 6))
    \o When(ProxyFlagged(current), Anomaly("SUSPICIOUS_PROXY", "MEDIUM", 7))
    \o When(current.countryCode \in HIGH_RISK_COUNTRIES, Anomaly("HIGH_RISK_COUNTRY", "CRITICAL", 9))
    \o When(UnusualHour(currentHour), Anomaly("UNUSUAL_TIME", "LOW", 3))

\* detectAnomalies(userId, currentIP): the anomalies returned, the cache
\* left, and what was looked up on the way.  readOk is whether findMany
\* answers; answers is what the provider does for each address.  Whatever
\* is thrown inside is caught, and the empty list is returned.
detectAnomalies(c, log, userId, currentIP, t, currentHour, answers, readOk) ==
    LET current == getLocation(c, currentIP, t, answers[currentIP])
        quiet == [ anomalies |-> << >>, cache |-> current.cache,
                   current |-> IF current.ret.ok THEN current.ret.value ELSE Null,
                   fetched |-> FALSE, previousIPs |-> << >>, previousLocations |-> << >>,
                   called |-> IF current.called THEN { currentIP } ELSE { } ]
    IN IF quiet.current = Null THEN quiet
       ELSE IF ~readOk THEN quiet
       ELSE LET ips == previousLogins(log, userId)
            IN IF ips = << >> THEN [ quiet EXCEPT !.fetched = TRUE ]
               ELSE LET resolved == ResolveAll(current.cache, ips, t, answers)
                    IN [ anomalies |-> IF resolved.ok
                                       THEN Checks(resolved.locations[1], quiet.current, currentHour)
                                       ELSE << >>,
                         cache |-> resolved.cache,
                         current |-> quiet.current,
                         fetched |-> TRUE,
                         previousIPs |-> ips,
                         previousLocations |-> resolved.locations,
                         called |-> quiet.called \cup resolved.called ]

\* --- inputs ---------------------------------------------------------------
Ip8888 == << "8", ".", "8", ".", "8", ".", "8" >>
Ip1111 == << "1", ".", "1", ".", "1", ".", "1" >>
Ip172_32 == << "1", "7", "2", ".", "3", "2", ".", "0", ".", "1" >>
IpLoopback == << "1", "2", "7", ".", "0", ".", "0", ".", "1" >>

LocalIPs ==
    { IpLoopback,
      << "1", "0", ".", "0", ".", "0", ".", "5" >>,
      << "1", "7", "2", ".", "1", "6", ".", "0", ".", "1" >>,
      << "1", "7", "2", ".", "3", "1", ".", "9", ".", "9" >>,
      << "1", "9", "2", ".", "1", "6", "8", ".", "1", ".", "1" >>,
      << "1", "6", "9", ".", "2", "5", "4", ".", "1", ".", "1" >>,
      << ":", ":", "1" >>,
      << "f", "e", "8", "0", ":", ":", "1" >> }

PublicIPs == { Ip8888, Ip1111, Ip172_32 }
GeoIPs == LocalIPs \cup PublicIPs
DetectIPs == { Ip8888, Ip1111, IpLoopback }
GeoUsers == { UserId, "user-2" }
\* new Date(), as the server's local time of day
ClockTimes == { [ hour |-> 5, minute |-> 59 ], [ hour |-> 6, minute |-> 0 ],
                [ hour |-> 23, minute |-> 30 ] }

\* Date.prototype.getHours: the hour of the local time, 0 to 23
getHours(time) == time.hour

Response(status, country, countryCode, regionName, region, proxy) ==
    [ kind |-> "response",
      data |-> [ status |-> status, country |-> country, countryCode |-> countryCode,
                 regionName |-> regionName, region |-> region, proxy |-> proxy ] ]

\* What the provider may do when asked about an address: answer, answer
\* with a non-success status, fail, or not answer within the timeout.
ProviderAnswers(ip) ==
    IF ip = Ip8888
    THEN { Response("success", "United States", "US", "Washington", "WA", FALSE),
           Response("success", "Canada", "CA", "Ontario", "ON", TRUE),
           [ kind |-> "throw" ] }
    ELSE IF ip = Ip1111
    THEN { Response("success", "United States", "US", "New York", "NY", FALSE),
           Response("success", "Australia", "AU", "Western Australia", "WA", FALSE),
           Response("success", "", "", "", "", FALSE),
           Response("fail", "", "", "", "", FALSE) }
    ELSE { [ kind |-> "timeout" ] }

\* The addresses for which detectAnomalies can call the provider, for a
\* user and a current address: those involved that getLocation does not
\* answer by itself.
Involved(c, log, userId, currentIP, t, readOk) ==
    LET ips == { currentIP } \cup
               (IF readOk
                THEN { log[i].ipAddress : i \in { k \in DOMAIN log : log[k].userId = userId } }
                ELSE { })
    IN { ip \in ips \cap PublicIPs : LookUp(c, ip, t, [ kind |-> "timeout" ]).called }

\* What the provider may do for an address among those looked up; an
\* address that is not looked up is given one fixed answer.
AnswersAmong(ip, ips) ==
    IF ip \in ips THEN ProviderAnswers(ip) ELSE { [ kind |-> "timeout" ] }

\* What the provider does for each address it can be asked about.
WorldsFor(ips) ==
    { (Ip8888 :> a) @@ (Ip1111 :> b) @@ (Ip172_32 :> c) :
        a \in AnswersAmong(Ip8888, ips), b \in AnswersAmong(Ip1111, ips),
        c \in AnswersAmong(Ip172_32, ips) }

LoginRow(userId, action, success, ipAddress, timestamp) ==
    [ userId |-> userId, action |-> action, success |-> success,
      ipAddress |-> ipAddress, timestamp |-> timestamp ]

\* The auditLog table when the service starts: the first user has logged in
\* before, the second has only a failed login and a login without address.
LoginsAtStart ==
    { << LoginRow(UserId, "LOGIN", TRUE, Ip8888, 1000),
         LoginRow(UserId, "LOGIN", TRUE, Ip1111, 3000),
         LoginRow(UserId, "LOGIN", TRUE, Ip8888, 2000),
         LoginRow(UserId, "LOGIN_FAILED", FALSE, Ip172_32, 4000),
         LoginRow("user-2", "LOGIN", FALSE, Ip1111, 5000),
         LoginRow("user-2", "LOGIN", TRUE, Null, 6000) >>,
      << LoginRow(UserId, "LOGIN", TRUE, Ip1111, 1000),
         LoginRow(UserId, "LOGIN", TRUE, Ip8888, 2000),
         LoginRow("user-2", "LOGOUT", TRUE, Ip8888, 3000) >> }

GeoInit ==
    /\ now = GeoStartTime
    /\ BlIdle
    /\ ReqIdle
    /\ hmacTable = << >>
    /\ issued = NoCall
    /\ lastVerify = NoCall
    /\ user = << >>
    /\ randomCount = 0
    /\ last2fa = NoCall
    /\ auditLog \in LoginsAtStart
    /\ cache = << >>
    /\ lastGeo = NoCall
    /\ AuditIdle

nonGeoVars == << totpVars, blVars, tfaVars, reqVars, auditVars >>

GeoTick ==
    /\ now < GeoStartTime + GeoMaxTicks * GeoTickMs
    /\ now' = now + GeoTickMs
    /\ lastGeo' = NoCall
    /\ UNCHANGED << nonGeoVars, cache >>

GetLocation ==
    \E ip \in GeoIPs :
        \E answer \in ProviderAnswers(ip) :
            \E outcome \in { getLocation(cache, ip, now, answer) } :
               /\ cache' = outcome.cache
               /\ lastGeo' = [ op |-> "getLocation", ip |-> ip, answer |-> answer,
                               called |-> outcome.called, ret |-> outcome.ret ]
               /\ UNCHANGED << now, nonGeoVars >>

DetectAnomalies ==
    \E userId \in GeoUsers, currentIP \in DetectIPs, time \in ClockTimes, readOk \in BOOLEAN :
        \E answers \in WorldsFor(Involved(cache, auditLog, userId, currentIP, now, readOk)) :
            \E outcome \in { detectAnomalies(cache, auditLog, userId, currentIP, now,
                                              getHours(time), answers, readOk) } :
               /\ cache' = outcome.cache
               /\ lastGeo' = [ op |-> "detectAnomalies", userId |-> userId, ip |-> currentIP,
                               time |-> time,
                               currentHour |-> getHours(time),
                               fetched |-> outcome.fetched,
                               current |-> outcome.current,
                               previousIPs |-> outcome.previousIPs,
                               previousLocations |-> outcome.previousLocations,
                               called |-> outcome.called,
                               anomalies |-> outcome.anomalies ]
               /\ UNCHANGED << now, nonGeoVars >>

\* cache.clear()
ClearCache ==
    /\ cache # << >>
    /\ cache' = << >>
    /\ lastGeo' = [ op |-> "clearCache" ]
    /\ UNCHANGED << now, nonGeoVars >>

GeoNext == GeoTick \/ GetLocation \/ DetectAnomalies \/ ClearCache

SpecGeo == GeoInit /\ [][GeoNext]_vars

(***************************************************************************)
(* AuditService: the two logs and their retention cleanup.  In this        *)
(* specification the clock is read in seconds, so that 90 days fit.        *)
(***************************************************************************)
AuditStartTime == 10000000  \* the clock when the service starts, in seconds
AuditTickS == 3888000       \* the clock advances by 45 days per step
AuditMaxTicks == 3          \* how many times the clock advances
MaxLogRows == 2             \* rows a log holds at most

\* cutoffDate.setDate(cutoffDate.getDate() - 90), away from a change of the
\* local clock
CutoffDate(t) == t - 90 * 24 * 60 * 60

IsBefore_OrAt(timestamp, cutoffDate) == timestamp <= cutoffDate

\* where: { timestamp: { lt: cutoffDate } }
IsBefore(timestamp, cutoffDate) == timestamp < cutoffDate

\* deleteMany({ where: { timestamp: { lt: cutoffDate } } }) on the auditLog
\* table: the rows left and the count, or the rows as they were when the
\* delete is rejected.
DeleteManyAudit(table, cutoffDate, ok) ==
    LET left == SelectSeq(table, LAMBDA row : ~IsBefore(row.timestamp[1], cutoffDate))
    IN IF ok THEN [ ok |-> TRUE, table |-> left, count |-> Len(table) - Len(left) ]
       ELSE [ ok |-> FALSE, table |-> table ]

\* The same on the securityLog table.
DeleteManySecurity(table, cutoffDate, ok) ==
    LET left == SelectSeq(table, LAMBDA row : ~IsBefore(row.timestamp, cutoffDate))
    IN IF ok THEN [ ok |-> TRUE, table |-> left, count |-> Len(table) - Len(left) ]
       ELSE [ ok |-> FALSE, table |-> table ]

AuditInit ==
    /\ now = AuditStartTime
    /\ BlIdle
    /\ ReqIdle
    /\ GeoIdle
    /\ AuditIdle
    /\ TfaIdle
    /\ hmacTable = << >>
    /\ issued = NoCall
    /\ lastVerify = NoCall

nonAuditVars == << totpVars, blacklistCache, dbBlacklist, lastAdd, lastBl, user, randomCount,
                   last2fa, reqVars, geoVars >>

AuditTick ==
    /\ now < AuditStartTime + AuditMaxTicks * AuditTickS
    /\ now' = now + AuditTickS
    /\ lastAudit' = NoCall
    /\ UNCHANGED << nonAuditVars, auditLog, securityLog >>

\* AuditService.logUserAction, and logAuthEvent and logReceiptOperation through it
LogUserAction ==
    /\ Len(auditLog) < MaxLogRows
    /\ \E logOk \in BOOLEAN :
          auditLog' = logUserAction("LOGIN", TRUE, logOk)
    /\ lastAudit' = [ op |-> "logUserAction" ]
    /\ UNCHANGED << now, nonAuditVars, securityLog >>

\* AuditService.logSecurityEvent
LogSecurityEvent ==
    /\ Len(securityLog) < MaxLogRows
    /\ \E logOk \in BOOLEAN :
          logSecurityEvent("UNAUTHORIZED_ACCESS", "203.0.113.7", "MEDIUM", logOk)
    /\ lastAudit' = [ op |-> "logSecurityEvent" ]
    /\ UNCHANGED << now, nonAuditVars, auditLog >>

\* AuditService.cleanupOldLogs: both deletes are issued together; the counts
\* are returned when both succeed, and the error is thrown on when one is
\* rejected, whatever the other did.
CleanupOldLogs ==
    \E auditOk \in BOOLEAN, securityOk \in BOOLEAN :
        LET auditDeleted == DeleteManyAudit(auditLog, CutoffDate(now), auditOk)
            securityDeleted == DeleteManySecurity(securityLog, CutoffDate(now), securityOk)
        IN /\ auditLog' = auditDeleted.table
           /\ securityLog' = securityDeleted.table
           /\ lastAudit' = [ op |-> "cleanupOldLogs",
                             ret |-> IF auditOk /\ securityOk
                                     THEN Returned([ auditLogsDeleted |-> auditDeleted.count,
                                                     securityLogsDeleted |-> securityDeleted.count ])
                                     ELSE Thrown ]
           /\ UNCHANGED << now, nonAuditVars >>

\* getUserAuditLogs, getSecurityLogs, getAuditStats: reads of the two tables
ReadLogs ==
    /\ lastAudit' = [ op |-> "read", rows |-> Len(auditLog) + Len(securityLog) ]
    /\ UNCHANGED << now, nonAuditVars, auditLog, securityLog >>

AuditNext == AuditTick \/ LogUserAction \/ LogSecurityEvent \/ CleanupOldLogs \/ ReadLogs

SpecAudit == AuditInit /\ [][AuditNext]_vars

(***************************************************************************)
(* AuthController.refreshToken and authenticateToken over the session of   *)
(* one client.  A refresh is split at its two awaits (findFirst, update);  *)
(* concurrent requests interleave at these points.                         *)
(***************************************************************************)
RefreshStartTime == 60000   \* Date.now() when the client logged in (ms)
RefreshTickMs == 500        \* clock advance of one RefreshTick (ms)
RefreshMaxTicks == 2

JWT_REFRESH_EXPIRES_IN == 7 * 24 * 60 * 60      \* '7d', in seconds
JWT_EXPIRES_IN == 30 * 60                       \* '30m', in seconds
ExpirationDays == 7                             \* rememberMe ? 30 : 7

\* jwt.sign(payload, secret, { expiresIn }): HS256 is deterministic, the token
\* is a function of the payload, the secret and iat = floor(Date.now() / 1000).
Sign(payload, secret, expiresIn, t) ==
    [ payload |-> payload, secret |-> secret,
      iat |-> t \div 1000, exp |-> t \div 1000 + expiresIn ]

\* jwt.verify(token, secret): the signature and the expiry.
Verify(token, secret, t) ==
    IF token.secret = secret /\ t \div 1000 < token.exp
    THEN Returned(token.payload)
    ELSE Thrown

\* email, financialLevel and subscription are columns of the one user and
\* the same in every token.
generateAccessToken(userId, t) ==
    Sign([ userId |-> userId, type |-> "access" ], "JWT_SECRET", JWT_EXPIRES_IN, t)

generateRefreshToken(userId, sessionId, t) ==
    Sign([ userId |-> userId, sessionId |-> sessionId, type |-> "refresh" ],
         "JWT_REFRESH_SECRET", JWT_REFRESH_EXPIRES_IN, t)

verifyAccessToken(token, t) ==
    LET payload == Verify(token, "JWT_SECRET", t)
    IN  IF payload.ok /\ payload.value.type # "access" THEN Thrown ELSE payload

verifyRefreshToken(token, t) ==
    LET payload == Verify(token, "JWT_REFRESH_SECRET", t)
    IN  IF payload.ok /\ payload.value.type # "refresh" THEN Thrown ELSE payload

\* `sess_${Date.now()}_${Math.random()...}`: random is a value no other call draws.
generateSessionId(t, random) == << t, random >>

\* SessionUtils.isSessionExpired
isSessionExpired(expiresAt, t) == t > expiresAt[1]

\* prisma.userSession.findFirst({ where: { userId, refreshToken, isActive: true } })
FindByRefreshToken(row, userId, refreshToken) ==
    IF row # Null /\ row.userId = userId /\ row.refreshToken = refreshToken /\ row.isActive
    THEN row ELSE Null

\* prisma.userSession.findFirst({ where: { userId, token, isActive: true } })
FindByToken(row, userId, token) ==
    IF row # Null /\ row.userId = userId /\ row.token = token /\ row.isActive
    THEN row ELSE Null

\* The session AuthController.login created at time t.
SessionAfterLogin(t) ==
    [ id |-> "session-1", userId |-> UserId,
      token |-> generateAccessToken(UserId, t),
      refreshToken |-> generateRefreshToken(UserId, generateSessionId(t, 0), t),
      isActive |-> TRUE,
      expiresAt |-> DateOf(t + ExpirationDays * 24 * 60 * 60 * 1000),
      updatedAt |-> DateOf(t) ]

InvalidToken == [ payload |-> [ type |-> "none" ], secret |-> "none", iat |-> 0, exp |-> 0 ]

Answered(i) == awaiting[i].pc = "done"
RefreshSucceeded(i) ==
    awaiting[i].op = "refreshToken" /\ Answered(i) /\ awaiting[i].status = 200

\* The tokens the client holds: those of the login and of every answer 200.
RefreshTokensHeld ==
    { SessionAfterLogin(RefreshStartTime).refreshToken } \cup
    { awaiting[i].refreshToken : i \in { j \in DOMAIN awaiting : RefreshSucceeded(j) } }
AccessTokensHeld ==
    { SessionAfterLogin(RefreshStartTime).token } \cup
    { awaiting[i].accessToken : i \in { j \in DOMAIN awaiting : RefreshSucceeded(j) } }

RefreshUnchanged ==
    UNCHANGED << totpVars, blVars, tfaVars, geoVars, auditVars, req, failedLogins >>

RefreshInit ==
    /\ now = RefreshStartTime
    /\ BlIdle
    /\ TfaIdle
    /\ GeoIdle
    /\ AuditIdle
    /\ hmacTable = << >>
    /\ issued = NoCall
    /\ lastVerify = NoCall
    /\ req = [stage |-> "none"]
    /\ failedLogins = << >>
    /\ awaiting = << >>
    /\ userSession = SessionAfterLogin(RefreshStartTime)

RefreshTick ==
    /\ now < RefreshStartTime + RefreshMaxTicks * RefreshTickMs
    /\ now' = now + RefreshTickMs
    /\ UNCHANGED << awaiting, userSession >>
    /\ RefreshUnchanged

\* What refreshToken answers without reading the store.
Answer(presented, status, message) ==
    [ op |-> "refreshToken", pc |-> "done", presented |-> presented,
      status |-> status, message |-> message ]

\* refreshToken up to `await prisma.userSession.findFirst(...)`.
BeginRefreshToken ==
    /\ Len(awaiting) < MaxCalls
    /\ \E refreshToken \in RefreshTokensHeld \cup { InvalidToken, Null } :
        IF refreshToken = Null
        THEN awaiting' = Append(awaiting,
                Answer(refreshToken, 400, "Refresh token is required"))
        ELSE IF ~verifyRefreshToken(refreshToken, now).ok
        THEN awaiting' = Append(awaiting,
                Answer(refreshToken, 401, "Invalid or expired refresh token"))
        ELSE \E readOk \in BOOLEAN :
             LET payload == verifyRefreshToken(refreshToken, now).value
             IN  awaiting' = Append(awaiting,
                    [ op |-> "refreshToken", pc |-> "findFirst", presented |-> refreshToken,
                      settled |-> readOk,
                      session |-> IF readOk
                                  THEN FindByRefreshToken(userSession, payload.userId,
                                                          refreshToken)
                                  ELSE Null ])
    /\ UNCHANGED << now, userSession >>
    /\ RefreshUnchanged

\* refreshToken from the answer of findFirst up to `await prisma.userSession.update(...)`.
ResumeRefreshToken ==
    /\ \E i \in DOMAIN awaiting :
        /\ awaiting[i].op = "refreshToken"
        /\ awaiting[i].pc = "findFirst"
        /\ LET call == awaiting[i]
               session == call.session
           IN  IF ~call.settled
               THEN /\ awaiting' = [awaiting EXCEPT ![i] =
                            Answer(call.presented, 500,
                                   "Internal server error during token refresh")]
                    /\ UNCHANGED userSession
               ELSE IF session = Null \/ isSessionExpired(session.expiresAt, now)
               THEN /\ awaiting' = [awaiting EXCEPT ![i] =
                            Answer(call.presented, 401, "Session expired")]
                    /\ UNCHANGED userSession
               ELSE \E writeOk \in BOOLEAN :
                    LET newAccessToken == generateAccessToken(session.userId, now)
                        newSessionId == generateSessionId(now, i)
                        newRefreshToken ==
                            generateRefreshToken(session.userId, newSessionId, now)
                    IN  /\ userSession' =
                            IF writeOk /\ userSession # Null /\ userSession.id = session.id
                            THEN [ userSession EXCEPT !.token = newAccessToken,
                                                      !.refreshToken = newRefreshToken,
                                                      !.updatedAt = DateOf(now) ]
                            ELSE userSession
                        /\ awaiting' = [awaiting EXCEPT ![i] =
                            [ op |-> "refreshToken", pc |-> "update",
                              presented |-> call.presented, settled |-> writeOk,
                              replaced |-> session.token,
                              accessToken |-> newAccessToken,
                              refreshToken |-> newRefreshToken ]]
    /\ UNCHANGED now
    /\ RefreshUnchanged

\* refreshToken after the update: 200 with the new tokens, or the catch block.
FinishRefreshToken ==
    /\ \E i \in DOMAIN awaiting :
        /\ awaiting[i].op = "refreshToken"
        /\ awaiting[i].pc = "update"
        /\ awaiting' = [awaiting EXCEPT ![i] =
                IF @.settled
                THEN [ op |-> "refreshToken", pc |-> "done", presented |-> @.presented,
                       status |-> 200, message |-> "Token refreshed successfully",
                       replaced |-> @.replaced,
                       accessToken |-> @.accessToken, refreshToken |-> @.refreshToken ]
                ELSE Answer(@.presented, 500, "Internal server error during token refresh")]
    /\ UNCHANGED << now, userSession >>
    /\ RefreshUnchanged

\* authenticateToken for a bearer token: the session it finds, or Null for a 401.
authenticateToken(token, row, t) ==
    IF token = Null
    THEN Null                                   \* 'Access token required'
    ELSE LET payload == verifyAccessToken(token, t)
         IN  IF ~payload.ok
             THEN Null                          \* 'Invalid or expired token'
             ELSE FindByToken(row, payload.value.userId, token)

\* A request through authenticateToken: 401, or the session is touched and next().
AuthenticateToken ==
    /\ Len(awaiting) < MaxCalls
    /\ \E token \in AccessTokensHeld \cup { InvalidToken } :
        LET session == authenticateToken(token, userSession, now)
        IN  /\ awaiting' = Append(awaiting,
                    [ op |-> "authenticateToken", pc |-> "done", token |-> token,
                      status |-> IF session = Null THEN 401 ELSE 200 ])
            /\ userSession' = IF session = Null
                              THEN userSession
                              ELSE [ userSession EXCEPT !.updatedAt = DateOf(now) ]
    /\ UNCHANGED now
    /\ RefreshUnchanged

RefreshNext ==
    \/ RefreshTick
    \/ BeginRefreshToken
    \/ ResumeRefreshToken
    \/ FinishRefreshToken
    \/ AuthenticateToken

SpecRefresh == RefreshInit /\ [][RefreshNext]_vars

(***************************************************************************)
(* C1: verifyTOTP(secret, code, window) returns true if and only if code   *)
(* is the TOTP code of some counter c with |c - currentCounter| <= window. *)
(***************************************************************************)
C1_VerifyAcceptsExactlyWindow ==
    lastVerify.op = "verify" =>
        ( lastVerify.result
            <=> \E c \in (lastVerify.counter - lastVerify.window)
                            ..(lastVerify.counter + lastVerify.window) :
                    lastVerify.code = GenerateTOTPForCounter(lastVerify.secret, c) )

(***************************************************************************)
(* C2: a code generateTOTP returned for a secret is accepted by verifyTOTP *)
(* for that secret when both calls fall in the same 30-second time step.   *)
(***************************************************************************)
C2_RoundTripSameStep ==
    ( /\ lastVerify.op = "verify"
      /\ issued.op = "generate"
      /\ lastVerify.secret = issued.secret
      /\ lastVerify.code = issued.code
      /\ lastVerify.counter = issued.counter )
    => lastVerify.result

C2_Witness ==
    /\ lastVerify.op = "verify"
    /\ issued.op = "generate"
    /\ lastVerify.secret = issued.secret
    /\ lastVerify.code = issued.code
    /\ lastVerify.counter = issued.counter
    /\ lastVerify.window = DefaultWindow
    /\ lastVerify.result
    /\ now > TotpStartTime

(***************************************************************************)
(* C4: for a user with 2FA enabled, verify2FACode called with a backup     *)
(* code whose hash is in the stored list (issued and not yet used) returns *)
(* success = true with isBackupCode = true, when the store answers.        *)
(***************************************************************************)
C4_IssuedBackupCodeAccepted ==
    [][ ( /\ last2fa'.op = "verify2FACode"
          /\ last2fa'.dbOk
          /\ user.twoFactorEnabled
          /\ \E i \in 1..Len(user.twoFactorBackupCodes) :
                user.twoFactorBackupCodes[i].data = last2fa'.code )
        => last2fa'.result = [ success |-> TRUE, isBackupCode |-> TRUE ] ]_vars

(***************************************************************************)
(* C5: POST /2fa/enable with a well-formed secret and the current TOTP     *)
(* code of that secret, the store accepting the writes, leaves the row     *)
(* enabled with an encrypted secret and the hashed backup codes, answers   *)
(* 200 with the generated backup codes, and is2FAEnabled is true after it. *)
(***************************************************************************)
C5_EnablePersistsCredential ==
    [][ ( /\ last2fa'.op = "enable2FA"
          /\ ValidateTwoFactorSetup(last2fa'.secret, last2fa'.code)
          /\ last2fa'.code = generateTOTP(last2fa'.secret, TimeStep)
          /\ last2fa'.dbOk )
        => /\ last2fa'.status = 200
           /\ Len(last2fa'.backupCodes) = NumBackupCodes
           /\ user'.twoFactorEnabled
           /\ user'.twoFactorSecret # Null
           /\ Len(user'.twoFactorBackupCodes) = NumBackupCodes
           /\ \A i \in 1..NumBackupCodes :
                user'.twoFactorBackupCodes[i].data = last2fa'.backupCodes[i]
           /\ is2FAEnabled(user', TRUE) ]_vars

(***************************************************************************)
(* C6: in every reachable state the credential is fully enabled (flag set  *)
(* and a secret stored) or fully disabled (flag clear and no secret        *)
(* stored): the flag and the stored secret never disagree.                 *)
(***************************************************************************)
C6_FlagAndSecretAgree ==
    user.twoFactorEnabled <=> (user.twoFactorSecret # Null)

\* disable2FA has cleared a credential that was enabled
C6_Witness ==
    /\ last2fa.op = "disable2FA"
    /\ last2fa.result
    /\ last2fa.wasEnabled
    /\ ~user.twoFactorEnabled
    /\ user.twoFactorSecret = Null

(***************************************************************************)
(* C7: a regenerateBackupCodes whose write succeeds leaves as the stored   *)
(* list the hashes of exactly the codes it returns, in one write that      *)
(* keeps no hash of the previous list and touches no other column; when    *)
(* the write fails the row is unchanged and null is returned.              *)
(***************************************************************************)
C7_RegenerateReplacesList ==
    [][ last2fa'.op = "regenerateBackupCodes" =>
          IF last2fa'.dbOk
          THEN /\ last2fa'.result # Null
               /\ Len(user'.twoFactorBackupCodes) = Len(last2fa'.result)
               /\ \A i \in 1..Len(last2fa'.result) :
                    user'.twoFactorBackupCodes[i].data = last2fa'.result[i]
               /\ \A i \in 1..Len(user'.twoFactorBackupCodes),
                     j \in 1..Len(user.twoFactorBackupCodes) :
                    user'.twoFactorBackupCodes[i] # user.twoFactorBackupCodes[j]
               /\ user' = [ user EXCEPT !.twoFactorBackupCodes = user'.twoFactorBackupCodes ]
          ELSE /\ last2fa'.result = Null
               /\ user' = user ]_vars

\* a regeneration has replaced a list that was not empty
C7_Witness ==
    /\ last2fa.op = "regenerateBackupCodes"
    /\ last2fa.dbOk
    /\ last2fa.replaced # << >>
    /\ Len(user.twoFactorBackupCodes) = NumBackupCodes

(***************************************************************************)
(* C8: after a successful addToBlacklist(ip, duration = d) with d > 0, and *)
(* no later write for ip, isBlacklisted(ip) is true at every time before   *)
(* the d minutes have elapsed and false at every time after.               *)
(***************************************************************************)
C8_BlacklistedUntilExpiry ==
    ( /\ lastBl.op = "isBlacklisted"
      /\ lastBl.ip \in DOMAIN lastAdd
      /\ lastAdd[lastBl.ip].timed )
    => /\ (now < lastAdd[lastBl.ip].until => lastBl.result)
       /\ (now > lastAdd[lastBl.ip].until => ~lastBl.result)

C8_Witness ==
    /\ lastBl.op = "isBlacklisted"
    /\ lastBl.ip \in DOMAIN lastAdd
    /\ lastAdd[lastBl.ip].timed
    /\ now > lastAdd[lastBl.ip].until
    /\ ~lastBl.result

\* The durations the claim names, in minutes.
ClaimedMinutes(activity) ==
    CASE activity = "LOGIN_FAILED" -> 30
      [] activity = "RATE_LIMIT_EXCEEDED" -> 60
      [] activity = "UNAUTHORIZED_ACCESS" -> 120
      [] activity = "FILE_UPLOAD_VIOLATION" -> 240
      [] OTHER -> 0

\* The step left ip with an AUTOMATIC entry, in the store and in the map, that ends
\* the claimed number of minutes after the call.
EscalationEntryCreated(ip, activity) ==
    /\ ip \in DOMAIN dbBlacklist'
    /\ ip \in DOMAIN blacklistCache'
    /\ dbBlacklist'[ip].source = "AUTOMATIC"
    /\ dbBlacklist'[ip].expiresAt = blacklistCache'[ip].expiresAt
    /\ dbBlacklist'[ip].reason = blacklistCache'[ip].reason
    /\ blacklistCache'[ip].expiresAt # Null
    /\ ( ClaimedMinutes(activity) # 0
            => blacklistCache'[ip].expiresAt = << now + ClaimedMinutes(activity) * 60000 >> )

EscalationLeftAlone ==
    /\ blacklistCache' = blacklistCache
    /\ dbBlacklist' = dbBlacklist
    /\ securityLog' = securityLog

(***************************************************************************)
(* C9 as claimed: handleSuspiciousActivity creates an AUTOMATIC entry for  *)
(* ip, with the duration of the activity, exactly when count >= threshold; *)
(* when count < threshold the map and the store are unchanged.             *)
(***************************************************************************)
C9_EntryExactlyWhenThreshold ==
    [][ lastBl'.op = "handleSuspiciousActivity" =>
            IF lastBl'.count >= lastBl'.threshold
            THEN EscalationEntryCreated(lastBl'.ip, lastBl'.activity)
            ELSE EscalationLeftAlone ]_vars

(***************************************************************************)
(* C9 as amended: the entry is created exactly when count >= threshold and *)
(* the store accepts the write; when count < threshold, or when the store  *)
(* rejects the write, the map and the blacklist table are unchanged.       *)
(***************************************************************************)
C9_EntryWhenThresholdAndStored ==
    [][ lastBl'.op = "handleSuspiciousActivity" =>
            IF lastBl'.count >= lastBl'.threshold /\ lastBl'.dbOk
            THEN EscalationEntryCreated(lastBl'.ip, lastBl'.activity)
            ELSE /\ blacklistCache' = blacklistCache
                 /\ dbBlacklist' = dbBlacklist ]_vars

C9_Witness ==
    /\ lastBl.op = "handleSuspiciousActivity"
    /\ lastBl.activity = "LOGIN_FAILED"
    /\ lastBl.count = 5
    /\ lastBl.threshold = 5
    /\ lastBl.ip \in DOMAIN blacklistCache
    /\ blacklistCache[lastBl.ip].expiresAt = << now + 30 * 60000 >>
    /\ dbBlacklist[lastBl.ip].source = "AUTOMATIC"

(***************************************************************************)
(* C10: when the store rejects the write of addToBlacklist or              *)
(* removeFromBlacklist, the call returns false and the in-memory map is    *)
(* what it was before the call.                                            *)
(***************************************************************************)
C10_FailedWriteLeavesMap ==
    [][ ( /\ lastBl'.op \in { "addToBlacklist", "removeFromBlacklist" }
          /\ ~lastBl'.dbOk )
        => /\ lastBl'.result = FALSE
           /\ blacklistCache' = blacklistCache ]_vars

C10_Witness ==
    /\ lastBl.op = "addToBlacklist"
    /\ ~lastBl.dbOk
    /\ lastBl.result = FALSE
    /\ lastBl.ip \notin DOMAIN blacklistCache
    /\ blacklistCache # << >>

(***************************************************************************)
(* C11: after an initializeCache whose load succeeds the map holds exactly *)
(* the persisted rows whose expiresAt is null or later than the load time, *)
(* each with its persisted reason and expiry, whatever it held before;     *)
(* when the load fails the map is what it was.                             *)
(***************************************************************************)
C11_CacheMirrorsStoreAfterLoad ==
    [][ lastBl'.op = "initializeCache" =>
          IF lastBl'.dbOk
          THEN /\ DOMAIN blacklistCache' =
                    { ip \in DOMAIN dbBlacklist :
                        \/ dbBlacklist[ip].expiresAt = Null
                        \/ dbBlacklist[ip].expiresAt[1] > now }
               /\ \A ip \in DOMAIN blacklistCache' :
                    /\ blacklistCache'[ip].reason = dbBlacklist[ip].reason
                    /\ blacklistCache'[ip].expiresAt = dbBlacklist[ip].expiresAt
          ELSE blacklistCache' = blacklistCache ]_vars

\* a load has filled the map and left out a persisted row that had expired
C11_Witness ==
    /\ lastBl.op = "initializeCache"
    /\ lastBl.dbOk
    /\ blacklistCache # << >>
    /\ \E ip \in DOMAIN dbBlacklist \ DOMAIN blacklistCache :
          IsExpired(dbBlacklist[ip].expiresAt)

C13_BlacklistedAlwaysDenied ==
    ( req.stage # "none" /\ req.blacklisted ) =>
        /\ req.ran = {}
        /\ req.stage = "answered" =>
              ( req.status = 403 /\ req.error = "Access denied" /\ req.answer = req.stored )

\* What holds of the chain: no stage after checkIPBlacklist runs for a request
\* whose ip is blacklisted when it arrives, and the request is answered 403 with
\* the stored reason unless cors has answered it as a preflight.
BlacklistedDeniedPastCors ==
    ( req.stage # "none" /\ req.blacklisted ) =>
        /\ req.ran = {}
        /\ ( req.stage = "answered" /\ req.method # "OPTIONS" ) =>
              ( req.status = 403 /\ req.error = "Access denied" /\ req.answer = req.stored )

(***************************************************************************)
(* C14: for an address in a local or private range getLocation never       *)
(* calls the provider and returns the synthetic 'Local' location (country  *)
(* 'Local', countryCode 'LOCAL'), whatever the cache holds and whatever    *)
(* calls came before.                                                      *)
(***************************************************************************)
C14_LocalNeverAsksProvider ==
    /\ ( lastGeo.op = "getLocation" /\ lastGeo.ip \in LocalIPs ) =>
          /\ ~lastGeo.called
          /\ lastGeo.ret.ok
          /\ lastGeo.ret.value # Null
          /\ lastGeo.ret.value.ip = lastGeo.ip
          /\ lastGeo.ret.value.country = "Local"
          /\ lastGeo.ret.value.countryCode = "LOCAL"
    /\ ( lastGeo.op = "detectAnomalies" /\ lastGeo.ip \in LocalIPs ) =>
          /\ lastGeo.ip \notin lastGeo.called
          /\ lastGeo.current # Null
          /\ lastGeo.current.countryCode = "LOCAL"
    /\ DOMAIN cache \cap LocalIPs = { }

C14_Witness ==
    /\ lastGeo.op = "getLocation"
    /\ lastGeo.ip = << "f", "e", "8", "0", ":", ":", "1" >>
    /\ lastGeo.ret = Returned(getLocalLocation(lastGeo.ip))
    /\ cache # << >>

\* 24 hours, in milliseconds
ClaimedTtlMs == 24 * 3600 * 1000

(***************************************************************************)
(* C15: when getLocation is called for an address whose cache entry is     *)
(* less than 24 hours old, it returns the cached location, does not call   *)
(* the provider and leaves the cache as it is; when the entry is 24 hours  *)
(* old or older, the provider is called, and a successful answer is what   *)
(* is returned and cached anew.                                            *)
(***************************************************************************)
C15_FreshEntryServedFromCache ==
    [][ ( lastGeo'.op = "getLocation" /\ lastGeo'.ip \in DOMAIN cache ) =>
          LET ip == lastGeo'.ip
              answer == lastGeo'.answer
          IN IF now - cache[ip].timestamp < ClaimedTtlMs
             THEN /\ ~lastGeo'.called
                  /\ lastGeo'.ret = Returned(cache[ip].data)
                  /\ cache' = cache
             ELSE /\ lastGeo'.called
                  /\ ( answer.kind = "response" /\ answer.data.status = "success" ) =>
                        /\ lastGeo'.ret = Returned(LocationOf(ip, answer.data))
                        /\ cache'[ip] = [ data |-> LocationOf(ip, answer.data), timestamp |-> now ]
      ]_vars

C15_Witness ==
    /\ lastGeo.op = "getLocation"
    /\ lastGeo.ip \in PublicIPs \cap DOMAIN cache
    /\ ~lastGeo.called
    /\ lastGeo.ret = Returned(cache[lastGeo.ip].data)
    /\ cache[lastGeo.ip].timestamp < now

\* The provider call failed: it threw, timed out, or answered with a status
\* other than success.
ProviderFailed(answer) ==
    IF answer.kind = "response" THEN answer.data.status # "success" ELSE TRUE

(***************************************************************************)
(* C16: when the provider call of getLocation throws, times out or answers *)
(* with a non-success status, getLocation returns null, does not throw,    *)
(* and leaves the cache unchanged.                                         *)
(***************************************************************************)
C16_ProviderFailureFailsSoft ==
    [][ ( lastGeo'.op = "getLocation" /\ lastGeo'.called /\ ProviderFailed(lastGeo'.answer) ) =>
          /\ lastGeo'.ret.ok
          /\ lastGeo'.ret.value = Null
          /\ cache' = cache
      ]_vars

C16_Witness ==
    /\ lastGeo.op = "getLocation"
    /\ lastGeo.called
    /\ lastGeo.answer.kind = "throw"
    /\ lastGeo.ret = Returned(Null)
    /\ lastGeo.ip \in DOMAIN cache

\* The user has a successful LOGIN entry with an address in the audit log.
HasPriorLogin(userId) ==
    \E i \in DOMAIN auditLog :
        /\ auditLog[i].userId = userId
        /\ auditLog[i].action = "LOGIN"
        /\ auditLog[i].success = TRUE
        /\ auditLog[i].ipAddress # << >>

HasAnomaly(type, severity, tenths) ==
    \E i \in DOMAIN lastGeo.anomalies :
        lastGeo.anomalies[i] = [ type |-> type, severity |-> severity, riskScore |-> tenths ]

HasAnomalyOfType(type) ==
    \E i \in DOMAIN lastGeo.anomalies : lastGeo.anomalies[i].type = type

(***************************************************************************)
(* C17: detectAnomalies returns an empty list for a user with no prior     *)
(* successful LOGIN audit entry with an address, whatever the current      *)
(* location is.                                                            *)
(***************************************************************************)
C17_FirstLoginHasNoAnomalies ==
    ( lastGeo.op = "detectAnomalies" /\ ~HasPriorLogin(lastGeo.userId) ) =>
        lastGeo.anomalies = << >>

C17_Witness ==
    /\ lastGeo.op = "detectAnomalies"
    /\ ~HasPriorLogin(lastGeo.userId)
    /\ lastGeo.fetched
    /\ lastGeo.current # Null
    /\ lastGeo.current.countryCode = "CA"
    /\ lastGeo.currentHour = 5
    /\ lastGeo.anomalies = << >>

\* The address of the user's most recent successful login.
MostRecentLoginIP(userId) ==
    LET logins == { i \in DOMAIN auditLog :
                      /\ auditLog[i].userId = userId
                      /\ auditLog[i].action = "LOGIN"
                      /\ auditLog[i].success = TRUE
                      /\ auditLog[i].ipAddress # << >> }
        latest == CHOOSE i \in logins : \A j \in logins : auditLog[j].timestamp <= auditLog[i].timestamp
    IN auditLog[latest].ipAddress

\* detectAnomalies has read a history that is not empty and has resolved the
\* current address.
Compared ==
    /\ lastGeo.op = "detectAnomalies"
    /\ lastGeo.fetched
    /\ lastGeo.current # Null
    /\ HasPriorLogin(lastGeo.userId)

(***************************************************************************)
(* C18: when the user has login history, the current address resolves and  *)
(* its country code differs from the country code of the location of the   *)
(* most recent historical login, the list detectAnomalies returns holds a  *)
(* COUNTRY_CHANGE anomaly with severity HIGH and risk score 0.8.           *)
(***************************************************************************)
C18_CountryChangeFlagged ==
    Compared =>
        /\ lastGeo.previousIPs # << >>
        /\ lastGeo.previousIPs[1] = MostRecentLoginIP(lastGeo.userId)
        /\ ( /\ lastGeo.previousLocations[1] # Null
             /\ lastGeo.previousLocations[1].countryCode # lastGeo.current.countryCode )
              => HasAnomaly("COUNTRY_CHANGE", "HIGH", 8)

C18_Witness ==
    /\ Compared
    /\ lastGeo.previousLocations[1] # Null
    /\ lastGeo.previousLocations[1].countryCode = "AU"
    /\ lastGeo.current.countryCode = "US"
    /\ lastGeo.previousLocations[1].regionCode = lastGeo.current.regionCode
    /\ HasAnomaly("COUNTRY_CHANGE", "HIGH", 8)

(***************************************************************************)
(* C19: detectAnomalies emits a REGION_CHANGE anomaly (severity MEDIUM,    *)
(* risk score 0.6) exactly when the location of the most recent historical *)
(* login has the same country code as the current location and another     *)
(* region code; it emits none when the country code differs.               *)
(***************************************************************************)
C19_RegionChangeOnlyWithinCountry ==
    Compared =>
        LET previous == lastGeo.previousLocations[1]
            withinCountry == /\ previous # Null
                             /\ previous.countryCode = lastGeo.current.countryCode
                             /\ previous.regionCode # lastGeo.current.regionCode
        IN /\ HasAnomalyOfType("REGION_CHANGE") <=> withinCountry
           /\ HasAnomalyOfType("REGION_CHANGE") => HasAnomaly("REGION_CHANGE", "MEDIUM", 6)

(***************************************************************************)
(* C20, as stated: whenever the current address resolves to a location     *)
(* with proxy = true, the list detectAnomalies returns holds a             *)
(* SUSPICIOUS_PROXY anomaly with severity MEDIUM, for every user and every *)
(* login history, the empty one included.                                  *)
(***************************************************************************)
C20_ProxyAlwaysFlagged ==
    ( /\ lastGeo.op = "detectAnomalies"
      /\ lastGeo.fetched
      /\ lastGeo.current # Null
      /\ lastGeo.current.proxy ) =>
        HasAnomaly("SUSPICIOUS_PROXY", "MEDIUM", 7)

(***************************************************************************)
(* C20, amended: whenever the current address resolves to a location with  *)
(* proxy = true and the login history read for the user is not empty, the  *)
(* list detectAnomalies returns holds a SUSPICIOUS_PROXY anomaly with      *)
(* severity MEDIUM; for a user without login history the list is empty.    *)
(***************************************************************************)
C20_ProxyFlaggedWithHistory ==
    ( lastGeo.op = "detectAnomalies" /\ lastGeo.current # Null /\ lastGeo.current.proxy ) =>
        IF lastGeo.fetched /\ HasPriorLogin(lastGeo.userId)
        THEN HasAnomaly("SUSPICIOUS_PROXY", "MEDIUM", 7)
        ELSE lastGeo.anomalies = << >>

C20_Witness ==
    /\ Compared
    /\ lastGeo.current.proxy
    /\ lastGeo.previousLocations[1] = Null
    /\ HasAnomaly("SUSPICIOUS_PROXY", "MEDIUM", 7)

(***************************************************************************)
(* C21: when the user has login history and the current location resolves, *)
(* detectAnomalies emits an UNUSUAL_TIME anomaly (severity LOW, risk score  *)
(* 0.3) if and only if the server's local time of the call is before 06:00 *)
(* or after 23:00.                                                         *)
(***************************************************************************)
C21_UnusualTimeOutsideDayHours ==
    Compared =>
        LET minuteOfDay == lastGeo.time.hour * 60 + lastGeo.time.minute
        IN HasAnomaly("UNUSUAL_TIME", "LOW", 3) <=> ( minuteOfDay < 6 * 60 \/ minuteOfDay > 23 * 60 )

\* What holds of the check: UNUSUAL_TIME is emitted exactly when the call is
\* made before 06:00.
UnusualTimeBeforeSix ==
    Compared =>
        ( HasAnomaly("UNUSUAL_TIME", "LOW", 3) <=> lastGeo.time.hour < 6 )

(***************************************************************************)
(* C22: every anomaly detectAnomalies returns has, by the time the result  *)
(* is returned, a security event in the securityLog table that carries     *)
(* the anomaly's type and severity.                                        *)
(***************************************************************************)
C22_EmittedAnomaliesAreLogged ==
    lastGeo.op = "detectAnomalies" =>
        \A i \in DOMAIN lastGeo.anomalies :
            \E j \in DOMAIN securityLog :
                /\ securityLog[j].action = "SUSPICIOUS_ACTIVITY"
                /\ securityLog[j].severity = lastGeo.anomalies[i].severity
                /\ securityLog[j].anomalyType = lastGeo.anomalies[i].type

ClaimedRetention == 90 * 86400

\* The rows of a log written before the retention cutoff of a call at time t.
OlderAudit(t) == { i \in DOMAIN auditLog : auditLog[i].timestamp[1] < t - ClaimedRetention }
OlderSecurity(t) == { i \in DOMAIN securityLog : securityLog[i].timestamp < t - ClaimedRetention }

\* s without the elements at the positions in gone, in the same order.
Without(s, gone) ==
    LET kept == { i \in DOMAIN s : i \notin gone }
        rank(i) == Cardinality({ j \in kept : j <= i })
    IN [ k \in 1..Cardinality(kept) |-> s[CHOOSE i \in kept : rank(i) = k] ]

(***************************************************************************)
(* C24: the audit and security logs are append-only.  A step leaves the    *)
(* rows of each log as they are, appends rows, or is cleanupOldLogs and    *)
(* removes only rows older than 90 days at the call; a cleanupOldLogs that *)
(* returns has removed exactly those rows from both logs and returns how   *)
(* many it removed from each.                                              *)
(***************************************************************************)
C24_LogsAppendOnly ==
    [][ LET cleanup == lastAudit'.op = "cleanupOldLogs"
        IN /\ ~cleanup =>
                 /\ Len(auditLog') >= Len(auditLog)
                 /\ SubSeq(auditLog', 1, Len(auditLog)) = auditLog
                 /\ Len(securityLog') >= Len(securityLog)
                 /\ SubSeq(securityLog', 1, Len(securityLog)) = securityLog
           /\ cleanup =>
                 /\ auditLog' \in { auditLog, Without(auditLog, OlderAudit(now)) }
                 /\ securityLog' \in { securityLog, Without(securityLog, OlderSecurity(now)) }
                 /\ lastAudit'.ret.ok =>
                       /\ auditLog' = Without(auditLog, OlderAudit(now))
                       /\ securityLog' = Without(securityLog, OlderSecurity(now))
                       /\ lastAudit'.ret.value.auditLogsDeleted = Cardinality(OlderAudit(now))
                       /\ lastAudit'.ret.value.securityLogsDeleted = Cardinality(OlderSecurity(now))
      ]_vars

C24_Witness ==
    /\ lastAudit.op = "cleanupOldLogs"
    /\ lastAudit.ret.ok
    /\ lastAudit.ret.value.auditLogsDeleted = 1
    /\ lastAudit.ret.value.securityLogsDeleted = 1
    /\ Len(auditLog) = 1
    /\ auditLog[1].timestamp[1] = now - ClaimedRetention
    /\ Len(securityLog) = 1

\* Strings to encrypt: the empty string, a word, and special characters.
Plaintexts ==
    { << >>, << "s", "e", "c", "r", "e", "t" >>, << "!", "@", ":", " ", "%" >> } \cup TfaSecrets

(***************************************************************************)
(* C25: for every string d, the empty string and strings with special      *)
(* characters included, decrypt(encrypt(d)) returns d, and encrypt(d)      *)
(* differs from d when d is not empty.                                     *)
(***************************************************************************)
C25_EncryptDecryptRoundTrip ==
    \A d \in Plaintexts :
        /\ encrypt(d).ok
        /\ decrypt(encrypt(d).value) = Returned(d)
        /\ d # << >> => encrypt(d).value # d

(***************************************************************************)
(* C26: once a client ip has been sent at least 5 failed login responses   *)
(* (401 or 400 on POST .../auth/login), the ip is blacklisted:             *)
(* isBlacklisted(ip) is true, and no later request from it gets past       *)
(* checkIPBlacklist.                                                       *)
(***************************************************************************)
C26_FailedLoginsEscalate ==
    /\ \A ip \in IPs :
          FailedLoginsOf(ip) >= 5 => BlacklistedIn(blacklistCache, ip)
    /\ req.stage \in { "apiLimiter", "trackSuspiciousActivity", "route" } =>
          FailedLoginsOf(req.ip) < 5

(***************************************************************************)
(* C27: at every moment and for every ip, getBlacklistReason(ip) returns a *)
(* reason (not null) only if isBlacklisted(ip) would return true at that   *)
(* moment; for an entry whose expiresAt has passed it returns null, also   *)
(* while the entry is still in the map.                                    *)
(***************************************************************************)
C27_ReasonOnlyIfBlacklisted ==
    \A ip \in IPs :
        getBlacklistReason(ip) # Null => BlacklistedIn(blacklistCache, ip)

\* The expiry the map holds per ip, and the expiry the store holds per ip with
\* an entry that has not expired.
MapExpiries == [ip \in DOMAIN blacklistCache |-> blacklistCache[ip].expiresAt]
StoreExpiries ==
    [ip \in { i \in DOMAIN dbBlacklist : ~IsExpired(dbBlacklist[i].expiresAt) } |->
        dbBlacklist[ip].expiresAt]

(***************************************************************************)
(* C28: for every interleaving of concurrent addToBlacklist,               *)
(* removeFromBlacklist and initializeCache calls, once all calls have      *)
(* completed the map holds an ip with an expiry if and only if the store   *)
(* holds an entry for that ip that has not expired, with the same expiry.  *)
(***************************************************************************)
C28_MapMirrorsStore == AllCompleted => MapExpiries = StoreExpiries

\* What a refresh request presenting the token would be answered now, run alone.
RefreshWouldSucceed(token) ==
    /\ verifyRefreshToken(token, now).ok
    /\ FindByRefreshToken(userSession, verifyRefreshToken(token, now).value.userId,
                          token) # Null

\* After a successful refresh the refresh token it presented is rejected.
OldRefreshTokenRejected ==
    \A i \in DOMAIN awaiting :
        RefreshSucceeded(i) => ~RefreshWouldSucceed(awaiting[i].presented)

\* After a successful refresh the access token it replaced is rejected.
OldAccessTokenRejected ==
    \A i \in DOMAIN awaiting :
        RefreshSucceeded(i) =>
            authenticateToken(awaiting[i].replaced, userSession, now) = Null

\* Of the refresh requests presenting one refresh token at most one succeeds.
AtMostOneRefreshSucceeds ==
    \A i, j \in DOMAIN awaiting :
        ( RefreshSucceeded(i) /\ RefreshSucceeded(j)
          /\ awaiting[i].presented = awaiting[j].presented ) => i = j

(***************************************************************************)
(* C30: refresh tokens are rotated and single-use.  After a successful     *)
(* POST /auth/refresh the refresh token presented is rejected (401) and    *)
(* the access token it replaced is no longer accepted by                   *)
(* authenticateToken; of two concurrent refresh requests presenting the    *)
(* same refresh token at most one succeeds, for every interleaving.        *)
(***************************************************************************)
C30_RefreshRotatesSingleUse ==
    /\ OldRefreshTokenRejected
    /\ OldAccessTokenRejected
    /\ AtMostOneRefreshSucceeds

====
